---- MODULE Spec2Model ----
(***************************************************************************)
(* orbvis: the streaming PROCAR extractors of orbvis/band/parser.py, the   *)
(* 'tot' column detection and the ORBITAL_INFO validation loop of          *)
(* orbvis/band/plotter.py, and the k-path reduction of                     *)
(* orbvis/band/utils.py (clean_kpoints, compute_kpoint_distances,          *)
(* insert_discontinuities).                                                *)
(*                                                                         *)
(* Text is modelled as text: a token is a sequence of one-character        *)
(* strings, a line is the sequence of tokens line.split() returns, and     *)
(* float(), int(), str.startswith, `in` and re.findall are computed on the *)
(* characters.  Numbers are fixed-point, in tenths (1.5 is 15).            *)
(***************************************************************************)
EXTENDS Integers, Sequences, FiniteSets, TLC

(***************************************************************************)
(* Bounds of the model.                                                    *)
(***************************************************************************)
MaxKpt == 2
MaxBand == 2
MaxIons == 2
MaxDeviations == 1
MaxTotLines == 3
MaxEntries == 2
MaxPath == 3
MaxCols == 3
MaxTicks == 3
MaxNedos == 2

MaxColors == 2

MaxCases == 2

MaxCfgLines == 3

(***************************************************************************)
(* Characters and words.                                                   *)
(***************************************************************************)
Digits == <<"0", "1", "2", "3", "4", "5", "6", "7", "8", "9">>

IsDigit(c) == \E d \in 1..10 : Digits[d] = c

DigitVal(c) == (CHOOSE d \in 1..10 : Digits[d] = c) - 1

IsSign(c) == c = "-" \/ c = "+"

W_kpoint == <<"k", "-", "p", "o", "i", "n", "t">>
W_band == <<"b", "a", "n", "d">>
W_ion == <<"i", "o", "n">>
W_tot == <<"t", "o", "t">>
W_energy == <<"e", "n", "e", "r", "g", "y">>
W_kpoints_colon == <<"k", "-", "p", "o", "i", "n", "t", "s", ":">>
W_bands_colon == <<"b", "a", "n", "d", "s", ":">>
W_ions_colon == <<"i", "o", "n", "s", ":">>
W_hash == <<"#">>
W_of == <<"o", "f">>
W_colon == <<":">>
W_weight == <<"w", "e", "i", "g", "h", "t">>
W_eq == <<"=">>
W_occ == <<"o", "c", "c", ".">>
W_s == <<"s">>
W_total == <<"t", "o", "t", "a", "l">>
W_stars == <<"*", "*", "*">>

(***************************************************************************)
(* str.startswith on the stripped line: the keywords hold no whitespace,   *)
(* so the line starts with kw exactly when its first token does.           *)
(***************************************************************************)
HasPrefix(tok, kw) == Len(tok) >= Len(kw) /\ SubSeq(tok, 1, Len(kw)) = kw

StartsWith(ln, kw) == Len(ln) > 0 /\ HasPrefix(ln[1], kw)

(* kw in tok, as a substring *)
HasSubstring(tok, kw) ==
    \E i \in 1..Len(tok) :
        i + Len(kw) - 1 <= Len(tok) /\ SubSeq(tok, i, i + Len(kw) - 1) = kw

(* kw in line: a keyword without whitespace lies inside one token *)
LineContains(ln, kw) == \E t \in 1..Len(ln) : HasSubstring(ln[t], kw)

(* list.index(tok): the first position (1-based here), 0 when absent *)
IndexOf(ln, tok) ==
    IF \E i \in 1..Len(ln) : ln[i] = tok
    THEN CHOOSE i \in 1..Len(ln) :
             ln[i] = tok /\ \A j \in 1..(i - 1) : ln[j] # tok
    ELSE 0

(***************************************************************************)
(* Number syntax.  DigitRun(s, i) is the number of digits of s from i on.  *)
(***************************************************************************)
RECURSIVE DigitRun(_, _)
DigitRun(s, i) ==
    IF i <= Len(s) /\ IsDigit(s[i]) THEN 1 + DigitRun(s, i + 1) ELSE 0

RECURSIVE DigitsValue(_, _, _)
DigitsValue(s, i, n) ==
    IF n = 0 THEN 0
    ELSE 10 * DigitsValue(s, i, n - 1) + DigitVal(s[i + n - 1])

(* int(tok): an optional sign and one or more digits *)
IsInt(tok) ==
    LET st == IF Len(tok) > 0 /\ IsSign(tok[1]) THEN 2 ELSE 1
    IN  st <= Len(tok) /\ DigitRun(tok, st) = Len(tok) - st + 1

IntVal(tok) ==
    LET st == IF IsSign(tok[1]) THEN 2 ELSE 1
        v == DigitsValue(tok, st, Len(tok) - st + 1)
    IN  IF tok[1] = "-" THEN -v ELSE v

(***************************************************************************)
(* float(tok) for exponent-free decimals: [sign] digits [. [digits]] or    *)
(* [sign] . digits.  The value is in tenths; the vocabulary of the model   *)
(* has at most one fractional digit.                                       *)
(***************************************************************************)
IsFloat(tok) ==
    LET st == IF Len(tok) > 0 /\ IsSign(tok[1]) THEN 2 ELSE 1
        ni == DigitRun(tok, st)
        dot == st + ni
    IN  \/ ni > 0 /\ dot = Len(tok) + 1
        \/ /\ dot <= Len(tok)
           /\ tok[dot] = "."
           /\ DigitRun(tok, dot + 1) = Len(tok) - dot
           /\ ni + (Len(tok) - dot) > 0

FloatVal(tok) ==
    LET st == IF IsSign(tok[1]) THEN 2 ELSE 1
        ni == DigitRun(tok, st)
        dot == st + ni
        nf == IF dot <= Len(tok) THEN Len(tok) - dot ELSE 0
        v == 10 * DigitsValue(tok, st, ni)
               + (IF nf > 0 THEN DigitVal(tok[dot + 1]) ELSE 0)
    IN  IF tok[1] = "-" THEN -v ELSE v

(***************************************************************************)
(* re.findall(r"[-+]?\d*\.\d+|\d+", line).  MatchEnd(s, i) is the position *)
(* after the match that starts at i, 0 when nothing matches at i: first    *)
(* the signed decimal alternative, then the digit run.                     *)
(***************************************************************************)
MatchEnd(s, i) ==
    LET st == IF IsSign(s[i]) THEN i + 1 ELSE i
        dot == st + DigitRun(s, st)
        nf == DigitRun(s, dot + 1)
    IN  IF dot <= Len(s) /\ s[dot] = "." /\ nf > 0 THEN dot + 1 + nf
        ELSE IF IsDigit(s[i]) THEN i + DigitRun(s, i)
        ELSE 0

RECURSIVE FindAllFrom(_, _)
FindAllFrom(s, i) ==
    IF i > Len(s) THEN <<>>
    ELSE IF MatchEnd(s, i) = 0 THEN FindAllFrom(s, i + 1)
    ELSE <<SubSeq(s, i, MatchEnd(s, i) - 1)>> \o FindAllFrom(s, MatchEnd(s, i))

(* no alternative matches whitespace: the matches of a line are those of   *)
(* its tokens, in order                                                    *)
RECURSIVE FindAll(_)
FindAll(ln) ==
    IF Len(ln) = 0 THEN <<>>
    ELSE FindAllFrom(Head(ln), 1) \o FindAll(Tail(ln))

(***************************************************************************)
(* Writing numbers as VASP does: str of a small count, and a one-decimal   *)
(* fixed-point number.                                                     *)
(***************************************************************************)
RECURSIVE NatText(_)
NatText(n) ==
    IF n < 10 THEN <<Digits[n + 1]>>
    ELSE NatText(n \div 10) \o <<Digits[(n % 10) + 1]>>

DecimalText(v) ==
    LET a == IF v < 0 THEN -v ELSE v
    IN  (IF v < 0 THEN <<"-">> ELSE <<>>)
            \o NatText(a \div 10) \o <<".">> \o <<Digits[(a % 10) + 1]>>

(***************************************************************************)
(* State.  The variables of the two PROCAR extractors keep the names of    *)
(* the locals of parser.py; file_ions, g, wf, clean, ndev, expected and    *)
(* exp_klist describe the file that is being streamed and what it holds.   *)
(***************************************************************************)
VARIABLES
    fn, pc, err, header, ispin, num_kpt, num_band,
    current_kpt, current_band, current_spin, line,
    band_energies, klist,
    ion_index, orbital_index, ion_line_counter, band_data,
    file_ions, g, wf, clean, ndev, expected, exp_klist,
    tot_file, tot_pos, tot_ret,
    data, tot_ind, entry_i, sc_pc, sc_err, sc_i, sc_j, calls,
    kp_pc, kp_i, k_point_array, band_kpoints, cleaned_kpoints, high_sym_indices,
    x_scale, raw_dists, segment_dists, cumulative_dists, scaled_dists,
    full_data, reduced_data,
    plot_ispin, bs_selected, procar_k, x_arr, discontinuity_indices,
    ins_pc, ins_arr, ins_ndim, ins_at, ins_ret,
    mt_pc, tick_vals, tick_labels, tick_tol, merged_vals, merged_labels,
    again_vals, again_labels,
    dos_fn, dos_pc, doscar, dos_ispin, atom_index, dos_orbital, dos_pos, to_skip,
    nedos, E, DOS,
    SOC, ISPIN, soc, eff_ispin, os_pc, reader, selection, panels,
    g_sub, in_first_block,
    cs_fn, COLOR_SCHEME, num_cases, cs_pc, processed_colors, color_scheme,
    cfg_lines, cfg_pos, buffer, parsing_key, bracket_balance, params,
    cfg_pc, cfg_err, parse_calls

scan_vars == <<fn, pc, err, header, ispin, num_kpt, num_band,
               current_kpt, current_band, current_spin, line>>
band_vars == <<band_energies, klist>>
orb_vars == <<ion_index, orbital_index, ion_line_counter, band_data>>
file_vars == <<file_ions, g, wf, clean, ndev, expected, exp_klist>>
tot_vars == <<tot_file, tot_pos, tot_ret>>
scatter_vars == <<data, tot_ind, entry_i, sc_pc, sc_err, sc_i, sc_j, calls>>

clean_vars == <<k_point_array, band_kpoints, cleaned_kpoints, high_sym_indices>>
dist_vars == <<x_scale, raw_dists, segment_dists, cumulative_dists, scaled_dists,
               full_data, reduced_data>>
plot_vars == <<plot_ispin, bs_selected, procar_k, x_arr, discontinuity_indices>>
kpath_vars == <<kp_pc, kp_i, clean_vars, dist_vars, plot_vars>>

(* the argument, its arr.ndim, the positions and the result of one call of *)
(* insert_discontinuities                                                  *)
ins_vars == <<ins_pc, ins_arr, ins_ndim, ins_at, ins_ret>>

(* the variables of the helpers and readers that are called on their own *)
(* the arguments of one call of merge_close_ticks, what it returns, and    *)
(* what a second call on that result returns                               *)
tick_vars == <<mt_pc, tick_vals, tick_labels, tick_tol, merged_vals, merged_labels,
               again_vals, again_labels>>

(* the DOSCAR readers: the file, the arguments, the number of lines taken  *)
(* from the file, the lines still to skip, and the locals nedos, E and DOS *)
(* (dos in read_atom_orbital_dos_streamed)                                 *)
dos_vars == <<dos_fn, dos_pc, doscar, dos_ispin, atom_index, dos_orbital, dos_pos,
              to_skip, nedos, E, DOS>>

(* orbscatter: the parameters SOC and ISPIN, the locals soc and ispin      *)
(* (eff_ispin), the reader called for the band tensor, the number of       *)
(* dimensions bs is indexed with, and the number of panels plotted         *)
shape_vars == <<SOC, ISPIN, soc, eff_ispin, os_pc, reader, selection, panels>>

(* the SOC orbital extractor: the sub-block of the band the file is in (0  *)
(* the orbital characters, 1 to 3 the spin projections) and the flag that  *)
(* tells the first sub-block from the others                               *)
soc_vars == <<g_sub, in_first_block>>

(* the colour handling of orbscatter and plot_pdos: the function, the      *)
(* parameter COLOR_SCHEME, len(ORBITAL_INFO), the list under validation    *)
(* and the colours in use afterwards                                       *)
col_vars == <<cs_fn, COLOR_SCHEME, num_cases, cs_pc, processed_colors, color_scheme>>

(* VASPStyleParser: the lines of the file and the number of them taken,    *)
(* the locals of _parse, self.params, where the constructor stands and the *)
(* message of the error it raised; parse_calls counts the calls of         *)
(* _parse_buffered_value                                                   *)
cfg_vars == <<cfg_lines, cfg_pos, buffer, parsing_key, bracket_balance, params,
              cfg_pc, cfg_err, parse_calls>>

ext_vars == <<col_vars, cfg_vars>>

aux_vars == <<ins_vars, tick_vars, dos_vars, shape_vars, soc_vars, ext_vars>>

(* the variables of the PROCAR readers, of orbscatter and of the k-path *)
core_vars == <<scan_vars, band_vars, orb_vars, file_vars, tot_vars, scatter_vars,
               kpath_vars>>

vars == <<core_vars, aux_vars>>

(***************************************************************************)
(* numpy arrays: np.zeros of a shape, indexing with a possibly negative    *)
(* index.                                                                  *)
(***************************************************************************)
Zeros2(nb, nk) == [b \in 0..(nb - 1) |-> [k \in 0..(nk - 1) |-> 0]]

Zeros3(nb, nk) == [s \in 0..1 |-> Zeros2(nb, nk)]

ZeroRow == <<0, 0, 0, 0, 0>>

InRange(i, n) == -n <= i /\ i < n

NpIndex(i, n) == IF i < 0 THEN i + n ELSE i

(* shape of a 2-D or 3-D array, as the tuple numpy reports *)
Shape2(a) == <<Cardinality(DOMAIN a), Cardinality(DOMAIN a[0])>>

Shape3(a) ==
    <<Cardinality(DOMAIN a), Cardinality(DOMAIN a[0]), Cardinality(DOMAIN a[0][0])>>

(***************************************************************************)
(* The PROCAR text.  A well-formed file holds, for each spin block, K      *)
(* k-point blocks of B band blocks; a band block is the band header, the   *)
(* ion header, one row per ion and the tot row; the second spin block is   *)
(* preceded by a repetition of the header line.  Every number of the file  *)
(* tells its own place, so a value stored at a wrong place shows.          *)
(***************************************************************************)
OrbitalColumns == <<W_s, W_tot>>

GoodHeader(nk, nb, ni) ==
    <<W_hash, W_of, W_kpoints_colon, NatText(nk),
      W_hash, W_of, W_bands_colon, NatText(nb),
      W_hash, W_of, W_ions_colon, NatText(ni)>>

BadHeaders ==
    { <<W_hash, W_of, NatText(1), W_hash, W_of, W_bands_colon, NatText(1)>>,
      <<W_hash, W_of, W_kpoints_colon, NatText(1), W_hash, W_of, NatText(1)>>,
      <<W_hash, W_of, W_kpoints_colon, <<"1", ".", "0">>,
        W_hash, W_of, W_bands_colon, NatText(1)>>,
      <<W_hash, W_of, W_kpoints_colon, NatText(1),
        W_hash, W_of, W_bands_colon, W_stars>>,
      <<W_hash, W_of, W_kpoints_colon, NatText(1), W_hash, W_of, W_bands_colon>> }

(* coordinates and weight of k-point i as written in spin block s *)
KPointNumbers(s, i) == <<i + 50 * s, -(i + 1), 5, i + 2 + s>>

(* VASP's fixed-width columns: a negative ky may touch kx ("0.0-0.1") *)
KPointHeader(s, i, glued) ==
    LET n == KPointNumbers(s, i)
    IN  <<W_kpoint, NatText(i + 1), W_colon>>
          \o (IF glued THEN <<DecimalText(n[1]) \o DecimalText(n[2])>>
              ELSE <<DecimalText(n[1]), DecimalText(n[2])>>)
          \o <<DecimalText(n[3]), W_weight, W_eq, DecimalText(n[4])>>

ShortKPointHeader == <<W_kpoint, NatText(1), W_colon, DecimalText(0), DecimalText(5)>>

EnergyNumber(s, b, k) == IF s = 0 THEN 1 + k + 10 * b ELSE -(1 + k + 10 * b)

BandHeader(b, etok) ==
    <<W_band, NatText(b + 1), W_hash, W_energy, etok, W_hash, W_occ, DecimalText(10)>>

BandHeaderNoToken(b) == <<W_band, NatText(b + 1), W_hash, W_energy>>

BandHeaderNoKeyword(b) == <<W_band, NatText(b + 1), W_hash, W_occ, DecimalText(10)>>

IonHeader == <<W_ion>> \o OrbitalColumns

(* projection of ion r, column c in band b of k-point k of spin block s *)
RowNumber(s, b, k, r, c) ==
    IF s = 0 THEN 1 + k + 10 * b + 100 * c + 1000 * r
    ELSE 2000 + 1 + k + 10 * b + 100 * c + 1000 * r

DataRow(s, b, k, r) ==
    <<NatText(r + 1)>>
      \o [c \in 1..Len(OrbitalColumns) |-> DecimalText(RowNumber(s, b, k, r, c - 1))]

StarsRow(r) == <<NatText(r + 1)>> \o [c \in 1..Len(OrbitalColumns) |-> W_stars]

ShortRow(r) == <<NatText(r + 1)>>

TotRow == <<W_tot>> \o [c \in 1..Len(OrbitalColumns) |-> DecimalText(9)]

(***************************************************************************)
(* The lines the file may hold next.  g is the place in the well-formed    *)
(* layout: the phase names the line that comes next (K a k-point header,   *)
(* B a band header, I the ion header, R an ion row, T the tot row, H the   *)
(* repeated header line before the second spin block, E the end of the     *)
(* file).  A file departs from the layout at most MaxDeviations times: by  *)
(* a malformed number (ok is FALSE) or by an extra line between two band   *)
(* blocks (tpl is FALSE); it may also end early, after any band block.     *)
(* Malformed numbers are put where the running extractor reads them: in    *)
(* band headers for the band reader, in ion rows for the orbital reader.   *)
(***************************************************************************)
NoLine == << <<>> >>

StartOfFile == [phase |-> "K", spin |-> 0, kpt |-> -1, band |-> -1, row |-> 0]

AfterTot ==
    IF g.band < num_band - 1 THEN [g EXCEPT !.phase = "B"]
    ELSE IF g.kpt < num_kpt - 1 THEN [g EXCEPT !.phase = "K"]
    ELSE IF g.spin < ispin - 1 THEN [g EXCEPT !.phase = "H"]
    ELSE [g EXCEPT !.phase = "E"]

Em(ln, gg, tpl, ok) == [line |-> ln, g |-> gg, tpl |-> tpl, ok |-> ok]

Template ==
    CASE g.phase = "K" ->
           { Em(KPointHeader(g.spin, g.kpt + 1, glued),
                [g EXCEPT !.phase = "B", !.kpt = g.kpt + 1, !.band = -1],
                TRUE, TRUE) : glued \in BOOLEAN }
      [] g.phase = "B" ->
           LET gg == [g EXCEPT !.phase = "I", !.band = g.band + 1]
           IN  { Em(BandHeader(gg.band,
                               DecimalText(EnergyNumber(g.spin, gg.band, g.kpt))),
                    gg, TRUE, TRUE) }
               \cup (IF ndev < MaxDeviations /\ fn = "band"
                     THEN { Em(BandHeader(gg.band, W_stars), gg, TRUE, FALSE),
                            Em(BandHeaderNoToken(gg.band), gg, TRUE, FALSE),
                            Em(BandHeaderNoKeyword(gg.band), gg, TRUE, FALSE) }
                     ELSE {})
      [] g.phase = "I" ->
           { Em(IonHeader, [g EXCEPT !.phase = "R", !.row = 0], TRUE, TRUE) }
      [] g.phase = "R" ->
           LET gg == [g EXCEPT !.row = g.row + 1,
                               !.phase = IF g.row + 1 = file_ions THEN "T" ELSE "R"]
           IN  { Em(DataRow(g.spin, g.band, g.kpt, g.row), gg, TRUE, TRUE) }
               \cup (IF ndev < MaxDeviations /\ fn = "orb"
                     THEN { Em(StarsRow(g.row), gg, TRUE, FALSE),
                            Em(ShortRow(g.row), gg, TRUE, FALSE) }
                     ELSE {})
      [] g.phase = "T" -> { Em(TotRow, AfterTot, TRUE, TRUE) }
      [] g.phase = "H" ->
           { Em(header,
                [g EXCEPT !.phase = "K", !.spin = g.spin + 1, !.kpt = -1, !.band = -1],
                TRUE, TRUE) }
      [] OTHER -> {}

ExtraLines ==
    { KPointHeader(0, 7, FALSE), BandHeader(0, DecimalText(999)), DataRow(0, 0, 8, 0) }
      \cup (IF fn = "band" THEN {ShortKPointHeader} ELSE {TotRow})

(* between two band blocks: where a block may be added or the file cut *)
AtBlockBoundary == g.phase \in {"K", "B", "H", "E"}

(* a blank line may stand before any line of the body and after the last *)
BlankAllowed == g.phase \in {"K", "B", "I", "R", "T", "H", "E"}

Emit ==
    Template
      \cup (IF ndev < MaxDeviations /\ AtBlockBoundary
            THEN { Em(ln, g, FALSE, TRUE) : ln \in ExtraLines }
            ELSE {})
      \cup (IF BlankAllowed THEN { Em(<<>>, g, TRUE, TRUE) } ELSE {})

FileStep(e) ==
    /\ g' = e.g
    /\ wf' = (wf /\ e.tpl)
    /\ clean' = (clean /\ e.ok)
    /\ ndev' = IF e.tpl /\ e.ok THEN ndev ELSE ndev + 1
    /\ file_ions' = file_ions

HeaderChoices ==
    { [header |-> GoodHeader(nk, nb, ni), ions |-> ni] :
          nk \in 1..MaxKpt, nb \in 1..MaxBand, ni \in 1..MaxIons }
      \cup { [header |-> h, ions |-> 1] : h \in BadHeaders }

(***************************************************************************)
(* Pieces shared by the two extractors.                                    *)
(***************************************************************************)
(* a reader that takes a count of 1 when the key is missing *)
HeaderCount_DefaultsToOne(h, key) ==
    LET i == IndexOf(h, key)
    IN  IF i = 0 \/ i + 1 > Len(h) THEN [err |-> "none", v |-> 1]
        ELSE IF ~IsInt(h[i + 1]) THEN [err |-> "none", v |-> 1]
        ELSE [err |-> "none", v |-> IntVal(h[i + 1])]

(* int(header[header.index(key) + 1]) *)
HeaderCount(h, key) ==
    LET i == IndexOf(h, key)
    IN  IF i = 0 THEN [err |-> "ValueError", v |-> 0]
        ELSE IF i + 1 > Len(h) THEN [err |-> "IndexError", v |-> 0]
        ELSE IF ~IsInt(h[i + 1]) THEN [err |-> "ValueError", v |-> 0]
        ELSE [err |-> "none", v |-> IntVal(h[i + 1])]

(* the error of the header lines, "none" when both counts and ispin are fine *)
HeaderError(h, sp) ==
    IF HeaderCount(h, W_kpoints_colon).err # "none"
    THEN HeaderCount(h, W_kpoints_colon).err
    ELSE IF HeaderCount(h, W_bands_colon).err # "none"
    THEN HeaderCount(h, W_bands_colon).err
    ELSE IF sp \notin {1, 2} THEN "ValueError"
    ELSE "none"

(* the two axes exchanged *)
AllocTensor_Transposed(sp, nb, nk) == IF sp = 1 THEN Zeros2(nk, nb) ELSE Zeros3(nk, nb)

(* np.zeros((num_band, num_kpt)) or np.zeros((2, num_band, num_kpt)) *)
AllocTensor(sp, nb, nk) == IF sp = 1 THEN Zeros2(nb, nk) ELSE Zeros3(nb, nk)

(* a[b, k] = v or a[s, b, k] = v *)
Store(a, s, b, k, v) ==
    IF ispin = 1 THEN [a EXCEPT ![b][k] = v] ELSE [a EXCEPT ![s][b][k] = v]

(* the spin channel moved on with the counters left where they are *)
Rollover_CountersKept(sp, ck, cb) ==
    IF ispin = 2 /\ ck = num_kpt - 1 /\ cb = num_band - 1
    THEN IF sp + 1 >= 2
         THEN [pc |-> "done", spin |-> sp + 1, kpt |-> ck, band |-> cb]
         ELSE [pc |-> "scan", spin |-> sp + 1, kpt |-> ck, band |-> cb]
    ELSE [pc |-> "scan", spin |-> sp, kpt |-> ck, band |-> cb]

(* the move to the second spin block at the end of the loop body *)
Rollover(sp, ck, cb) ==
    IF ispin = 2 /\ ck = num_kpt - 1 /\ cb = num_band - 1
    THEN IF sp + 1 >= 2
         THEN [pc |-> "done", spin |-> sp + 1, kpt |-> ck, band |-> cb]
         ELSE [pc |-> "scan", spin |-> sp + 1, kpt |-> -1, band |-> -1]
    ELSE [pc |-> "scan", spin |-> sp, kpt |-> ck, band |-> cb]

(***************************************************************************)
(* read_band_energies_and_klist_from_PROCAR                                *)
(***************************************************************************)
(* coordinates extracted in no spin block *)
ExtractsKPoint_Never(sp) == FALSE

(* coordinates extracted in both spin blocks *)
ExtractsKPoint_Always(sp) == TRUE

(* the guard of the coordinate extraction *)
ExtractsKPoint(sp) == sp = 0

(* the k-point number of the line taken for kx *)
KPointRow_IndexNotSkipped(ck, fv) ==
    <<ck, FloatVal(fv[1]), FloatVal(fv[2]), FloatVal(fv[3]), FloatVal(fv[Len(fv)])>>

(* [current_kpt, kx, ky, kz, weight] from the numbers found on the line *)
KPointRow(ck, fv) ==
    <<ck, FloatVal(fv[2]), FloatVal(fv[3]), FloatVal(fv[4]), FloatVal(fv[Len(fv)])>>

(* the token two places after "energy" *)
EnergyOf_WrongToken(ln) ==
    LET i == IndexOf(ln, W_energy)
    IN  IF i = 0 \/ i + 2 > Len(ln) THEN 0
        ELSE IF ~IsFloat(ln[i + 2]) THEN 0
        ELSE FloatVal(ln[i + 2])

(* float(parts[parts.index("energy") + 1]), 0.0 on ValueError or IndexError *)
EnergyOf(ln) ==
    LET i == IndexOf(ln, W_energy)
    IN  IF i = 0 \/ i + 1 > Len(ln) THEN 0
        ELSE IF ~IsFloat(ln[i + 1]) THEN 0
        ELSE FloatVal(ln[i + 1])

(* no line is taken for blank *)
IsBlank_Never(ln) == FALSE

(* lines 630-632 and 721-724: line.strip() leaves nothing *)
IsBlank(ln) == Len(ln) = 0

Raise(e) == pc' = "error" /\ err' = e

(* the parts of the state another operation owns, at rest *)
IdleTot == tot_file = <<>> /\ tot_pos = 0 /\ tot_ret = [st |-> "idle", v |-> 0]

IdleScatter ==
    /\ data = <<>> /\ tot_ind = 0 /\ entry_i = 0 /\ calls = <<>>
    /\ sc_pc = "idle" /\ sc_err = "none" /\ sc_i = 0 /\ sc_j = 0

IdleClean ==
    /\ k_point_array = <<>> /\ band_kpoints = <<>>
    /\ cleaned_kpoints = <<>> /\ high_sym_indices = <<>>

IdleDist ==
    /\ x_scale = 0 /\ raw_dists = <<>> /\ segment_dists = <<>>
    /\ cumulative_dists = <<>> /\ scaled_dists = <<>>
    /\ full_data = <<>> /\ reduced_data = <<>>

IdlePlot ==
    /\ plot_ispin = 1 /\ bs_selected = <<>> /\ procar_k = <<>>
    /\ x_arr = <<>> /\ discontinuity_indices = <<>>

IdleKPath == kp_pc = "idle" /\ kp_i = 0 /\ IdleClean /\ IdleDist /\ IdlePlot

IdleInsert ==
    /\ ins_pc = "idle" /\ ins_arr = <<>> /\ ins_ndim = 0
    /\ ins_at = <<>> /\ ins_ret = <<>>

IdleTicks ==
    /\ mt_pc = "idle" /\ tick_vals = <<>> /\ tick_labels = <<>> /\ tick_tol = 0
    /\ merged_vals = <<>> /\ merged_labels = <<>>
    /\ again_vals = <<>> /\ again_labels = <<>>

IdleDos ==
    /\ dos_fn = "none" /\ dos_pc = "idle" /\ doscar = <<>> /\ dos_ispin = 1
    /\ atom_index = 0 /\ dos_orbital = 0 /\ dos_pos = 0 /\ to_skip = 0
    /\ nedos = 0 /\ E = <<>> /\ DOS = <<>>

IdleShape ==
    /\ SOC = <<>> /\ ISPIN = 1 /\ soc = FALSE /\ eff_ispin = 1
    /\ os_pc = "idle" /\ reader = "none" /\ selection = 0 /\ panels = 0

IdleSoc == g_sub = 0 /\ in_first_block = TRUE

IdleColours ==
    /\ cs_fn = "none" /\ num_cases = 0
    /\ COLOR_SCHEME = [kind |-> "none", colours |-> <<>>, name |-> "", number |-> 0]
    /\ cs_pc = "idle" /\ processed_colors = <<>> /\ color_scheme = <<>>

NoneValue == [t |-> "None", v |-> <<>>]

IdleConfig ==
    /\ cfg_lines = <<>> /\ cfg_pos = 0 /\ buffer = <<>> /\ parsing_key = <<>>
    /\ bracket_balance = 0
    /\ params = [ORBITAL_INFO |-> NoneValue, COLOR_SCHEME |-> NoneValue, ISPIN |-> 1]
    /\ cfg_pc = "idle" /\ cfg_err = "none" /\ parse_calls = 0

IdleExt == IdleColours /\ IdleConfig

IdleAux == IdleInsert /\ IdleTicks /\ IdleDos /\ IdleShape /\ IdleSoc /\ IdleExt

InitCommon ==
    /\ pc = "start" /\ err = "none"
    /\ \E h \in HeaderChoices : header = h.header /\ file_ions = h.ions
    /\ ispin \in {1, 2, 3}
    /\ num_kpt = 0 /\ num_band = 0
    /\ current_kpt = -1 /\ current_band = -1 /\ current_spin = 0
    /\ line = NoLine
    /\ g = StartOfFile /\ wf = TRUE /\ clean = TRUE /\ ndev = 0
    /\ expected = <<>> /\ exp_klist = <<>>
    /\ IdleTot
    /\ IdleScatter
    /\ IdleKPath
    /\ IdleAux

InitBand ==
    /\ fn = "band"
    /\ InitCommon
    /\ band_energies = <<>> /\ klist = <<>>
    /\ ion_index = 0 /\ orbital_index = 0 /\ ion_line_counter = 0 /\ band_data = <<>>

(* lines 609-628: the two header lines, the arrays, the counters *)
BandReadHeader ==
    /\ fn = "band"
    /\ pc = "start"
    /\ IF HeaderError(header, ispin) # "none"
       THEN /\ Raise(HeaderError(header, ispin))
            /\ UNCHANGED <<num_kpt, num_band, band_energies, klist, expected, exp_klist>>
       ELSE /\ pc' = "scan" /\ err' = err
            /\ num_kpt' = HeaderCount(header, W_kpoints_colon).v
            /\ num_band' = HeaderCount(header, W_bands_colon).v
            /\ band_energies' = AllocTensor(ispin, num_band', num_kpt')
            /\ klist' = [i \in 0..(num_kpt' - 1) |-> ZeroRow]
            /\ expected' = AllocTensor(ispin, num_band', num_kpt')
            /\ exp_klist' = [i \in 0..(num_kpt' - 1) |-> ZeroRow]
    /\ UNCHANGED <<fn, header, ispin, current_kpt, current_band, current_spin, line>>
    /\ UNCHANGED <<file_ions, g, wf, clean, ndev>>
    /\ UNCHANGED <<orb_vars, tot_vars, scatter_vars, kpath_vars>>
    /\ UNCHANGED aux_vars

(* lines 635-651 *)
BandKPointLine ==
    /\ fn = "band"
    /\ pc = "scan"
    /\ \E e \in Emit :
         /\ StartsWith(e.line, W_kpoint)
         /\ FileStep(e)
         /\ line' = e.line
         /\ current_kpt' = current_kpt + 1
         /\ current_band' = -1
         /\ IF ~ExtractsKPoint(current_spin)
            THEN UNCHANGED <<pc, err, klist>>
            ELSE IF Len(FindAll(e.line)) < 4
            THEN Raise("ValueError") /\ UNCHANGED klist
            ELSE IF ~InRange(current_kpt', num_kpt)
            THEN Raise("IndexError") /\ UNCHANGED klist
            ELSE /\ klist' = [klist EXCEPT ![NpIndex(current_kpt', num_kpt)] =
                                  KPointRow(current_kpt', FindAll(e.line))]
                 /\ UNCHANGED <<pc, err>>
         /\ exp_klist' =
              IF e.tpl /\ g.spin = 0
              THEN [exp_klist EXCEPT ![e.g.kpt] = <<e.g.kpt>> \o KPointNumbers(0, e.g.kpt)]
              ELSE exp_klist
    /\ UNCHANGED <<fn, header, ispin, num_kpt, num_band, current_spin, band_energies, expected>>
    /\ UNCHANGED <<orb_vars, tot_vars, scatter_vars, kpath_vars>>
    /\ UNCHANGED aux_vars

(* lines 653-672 *)
BandBandLine ==
    /\ fn = "band"
    /\ pc = "scan"
    /\ \E e \in Emit :
         /\ ~StartsWith(e.line, W_kpoint)
         /\ StartsWith(e.line, W_band)
         /\ FileStep(e)
         /\ line' = e.line
         /\ LET cb == current_band + 1
                r == Rollover(current_spin, current_kpt, cb)
            IN  IF InRange(cb, num_band) /\ InRange(current_kpt, num_kpt)
                THEN /\ band_energies' =
                          Store(band_energies, current_spin, NpIndex(cb, num_band),
                                NpIndex(current_kpt, num_kpt), EnergyOf(e.line))
                     /\ pc' = r.pc /\ err' = err
                     /\ current_spin' = r.spin
                     /\ current_kpt' = r.kpt
                     /\ current_band' = r.band
                ELSE /\ Raise("IndexError")
                     /\ current_band' = cb
                     /\ UNCHANGED <<band_energies, current_spin, current_kpt>>
         /\ expected' =
              IF e.tpl
              THEN Store(expected, g.spin, e.g.band, g.kpt,
                         IF e.ok THEN EnergyNumber(g.spin, e.g.band, g.kpt) ELSE 0)
              ELSE expected
    /\ UNCHANGED <<fn, header, ispin, num_kpt, num_band, klist, exp_klist>>
    /\ UNCHANGED <<orb_vars, tot_vars, scatter_vars, kpath_vars>>
    /\ UNCHANGED aux_vars

(* any other non-blank line: only the rollover test of lines 667-672 *)
BandOtherLine ==
    /\ fn = "band"
    /\ pc = "scan"
    /\ \E e \in Emit :
         /\ ~IsBlank(e.line)
         /\ ~StartsWith(e.line, W_kpoint)
         /\ ~StartsWith(e.line, W_band)
         /\ FileStep(e)
         /\ line' = e.line
         /\ LET r == Rollover(current_spin, current_kpt, current_band)
            IN  /\ pc' = r.pc
                /\ current_spin' = r.spin
                /\ current_kpt' = r.kpt
                /\ current_band' = r.band
    /\ UNCHANGED <<err, fn, header, ispin, num_kpt, num_band, band_energies, klist>>
    /\ UNCHANGED <<expected, exp_klist, orb_vars, tot_vars, scatter_vars, kpath_vars>>
    /\ UNCHANGED aux_vars

(* lines 631-633 *)
BandBlankLine ==
    /\ fn = "band"
    /\ pc = "scan"
    /\ \E e \in Emit :
         /\ IsBlank(e.line)
         /\ FileStep(e)
         /\ line' = e.line
    /\ UNCHANGED <<pc, err, fn, header, ispin, num_kpt, num_band>>
    /\ UNCHANGED <<current_kpt, current_band, current_spin, band_energies, klist>>
    /\ UNCHANGED <<expected, exp_klist, orb_vars, tot_vars, scatter_vars, kpath_vars>>
    /\ UNCHANGED aux_vars

(* the file ends: the loop is left and the arrays are returned *)
BandEndOfFile ==
    /\ fn = "band"
    /\ pc = "scan"
    /\ AtBlockBoundary
    /\ pc' = "done"
    /\ wf' = (wf /\ g.phase = "E")
    /\ UNCHANGED <<err, fn, header, ispin, num_kpt, num_band>>
    /\ UNCHANGED <<current_kpt, current_band, current_spin, line, band_energies, klist>>
    /\ UNCHANGED <<file_ions, g, clean, ndev, expected, exp_klist>>
    /\ UNCHANGED <<orb_vars, tot_vars, scatter_vars, kpath_vars>>
    /\ UNCHANGED aux_vars

NextBand ==
    \/ BandReadHeader
    \/ BandKPointLine
    \/ BandBandLine
    \/ BandOtherLine
    \/ BandBlankLine
    \/ BandEndOfFile

SpecBand == InitBand /\ [][NextBand]_vars

(***************************************************************************)
(* orbvis_orbital_specific_band_data_from_PROCAR                           *)
(***************************************************************************)
(* the IndexError of a missing column left uncaught *)
OrbValue_IndexErrorUncaught(ln, oi) ==
    IF oi + 2 > Len(ln) THEN [err |-> "IndexError", v |-> 0]
    ELSE IF ~IsFloat(ln[oi + 2]) THEN [err |-> "none", v |-> 0]
    ELSE [err |-> "none", v |-> FloatVal(ln[oi + 2])]

(* float(line.split()[orbital_index + 1]) inside try/except: both errors   *)
(* are caught and give 0.0, so err is always "none"                        *)
OrbValue(ln, oi) ==
    IF oi + 2 > Len(ln) THEN [err |-> "none", v |-> 0]
    ELSE IF ~IsFloat(ln[oi + 2]) THEN [err |-> "none", v |-> 0]
    ELSE [err |-> "none", v |-> FloatVal(ln[oi + 2])]

(* the row counted now is the requested ion's row *)
IsSelectedRow(counter, ion) == counter = ion + 1

(* the move to the second spin block, tested after every ion row *)
OrbRollover(sp, ck, cb, counter) ==
    IF ispin = 2 /\ ck = num_kpt - 1 /\ cb = num_band - 1
    THEN IF sp + 1 >= 2
         THEN [pc |-> "done", spin |-> sp + 1, kpt |-> ck, band |-> cb, counter |-> counter]
         ELSE [pc |-> "scan", spin |-> sp + 1, kpt |-> -1, band |-> -1, counter |-> 0]
    ELSE [pc |-> "scan", spin |-> sp, kpt |-> ck, band |-> cb, counter |-> counter]

InitOrb ==
    /\ fn = "orb"
    /\ InitCommon
    /\ band_energies = <<>> /\ klist = <<>>
    /\ ion_index \in 0..(MaxIons - 1)
    /\ orbital_index \in 0..Len(OrbitalColumns)
    /\ ion_line_counter = 0 /\ band_data = <<>>

(* lines 698-718 *)
OrbReadHeader ==
    /\ fn = "orb"
    /\ pc = "start"
    /\ IF HeaderError(header, ispin) # "none"
       THEN /\ Raise(HeaderError(header, ispin))
            /\ UNCHANGED <<num_kpt, num_band, band_data, expected>>
       ELSE /\ pc' = "scan" /\ err' = err
            /\ num_kpt' = HeaderCount(header, W_kpoints_colon).v
            /\ num_band' = HeaderCount(header, W_bands_colon).v
            /\ band_data' = AllocTensor(ispin, num_band', num_kpt')
            /\ expected' = AllocTensor(ispin, num_band', num_kpt')
    /\ UNCHANGED <<fn, header, ispin, current_kpt, current_band, current_spin, line>>
    /\ UNCHANGED <<ion_index, orbital_index, ion_line_counter>>
    /\ UNCHANGED <<file_ions, g, wf, clean, ndev, exp_klist>>
    /\ UNCHANGED <<band_vars, tot_vars, scatter_vars, kpath_vars>>
    /\ UNCHANGED aux_vars

(* lines 726-730 *)
OrbKPointLine ==
    /\ fn = "orb"
    /\ pc = "scan"
    /\ \E e \in Emit :
         /\ StartsWith(e.line, W_kpoint)
         /\ FileStep(e)
         /\ line' = e.line
    /\ current_kpt' = current_kpt + 1
    /\ current_band' = -1
    /\ ion_line_counter' = 0
    /\ UNCHANGED <<fn, pc, err, header, ispin, num_kpt, num_band, current_spin>>
    /\ UNCHANGED <<ion_index, orbital_index, band_data, expected, exp_klist>>
    /\ UNCHANGED <<band_vars, tot_vars, scatter_vars, kpath_vars>>
    /\ UNCHANGED aux_vars

(* lines 732-735 *)
OrbBandLine ==
    /\ fn = "orb"
    /\ pc = "scan"
    /\ \E e \in Emit :
         /\ ~StartsWith(e.line, W_kpoint)
         /\ StartsWith(e.line, W_band)
         /\ FileStep(e)
         /\ line' = e.line
    /\ current_band' = current_band + 1
    /\ ion_line_counter' = 0
    /\ UNCHANGED <<fn, pc, err, header, ispin, num_kpt, num_band, current_spin, current_kpt>>
    /\ UNCHANGED <<ion_index, orbital_index, band_data, expected, exp_klist>>
    /\ UNCHANGED <<band_vars, tot_vars, scatter_vars, kpath_vars>>
    /\ UNCHANGED aux_vars

(* lines 723-724 and 737-741: blank lines, the ion header, the tot row *)
OrbSkippedLine ==
    /\ fn = "orb"
    /\ pc = "scan"
    /\ \E e \in Emit :
         /\ \/ IsBlank(e.line)
            \/ /\ ~StartsWith(e.line, W_kpoint)
               /\ ~StartsWith(e.line, W_band)
               /\ StartsWith(e.line, W_ion) \/ StartsWith(e.line, W_tot)
         /\ FileStep(e)
         /\ line' = e.line
    /\ UNCHANGED <<fn, pc, err, header, ispin, num_kpt, num_band>>
    /\ UNCHANGED <<current_kpt, current_band, current_spin>>
    /\ UNCHANGED <<orb_vars, expected, exp_klist, band_vars, tot_vars, scatter_vars, kpath_vars>>
    /\ UNCHANGED aux_vars

(* lines 743-763: every other line is taken for an ion row *)
OrbIonRow ==
    /\ fn = "orb"
    /\ pc = "scan"
    /\ \E e \in Emit :
         /\ ~IsBlank(e.line)
         /\ ~StartsWith(e.line, W_kpoint)
         /\ ~StartsWith(e.line, W_band)
         /\ ~StartsWith(e.line, W_ion)
         /\ ~StartsWith(e.line, W_tot)
         /\ FileStep(e)
         /\ line' = e.line
         /\ LET counted == current_kpt >= 0 /\ current_band >= 0
                counter == IF counted THEN ion_line_counter + 1 ELSE ion_line_counter
                selected == counted /\ IsSelectedRow(counter, ion_index)
                val == OrbValue(e.line, orbital_index)
                r == OrbRollover(current_spin, current_kpt, current_band, counter)
            IN  IF selected /\ val.err # "none"
                THEN /\ Raise(val.err)
                     /\ ion_line_counter' = counter
                     /\ UNCHANGED <<band_data, current_spin, current_kpt, current_band>>
                ELSE IF selected /\ ~(InRange(current_band, num_band)
                                        /\ InRange(current_kpt, num_kpt))
                THEN /\ Raise("IndexError")
                     /\ ion_line_counter' = counter
                     /\ UNCHANGED <<band_data, current_spin, current_kpt, current_band>>
                ELSE /\ band_data' =
                          IF selected
                          THEN Store(band_data, current_spin, current_band,
                                     current_kpt, val.v)
                          ELSE band_data
                     /\ pc' = r.pc /\ err' = err
                     /\ current_spin' = r.spin
                     /\ current_kpt' = r.kpt
                     /\ current_band' = r.band
                     /\ ion_line_counter' = r.counter
         /\ expected' =
              IF e.tpl /\ g.phase = "R" /\ g.row = ion_index
              THEN Store(expected, g.spin, g.band, g.kpt,
                         IF e.ok /\ orbital_index < Len(OrbitalColumns)
                         THEN RowNumber(g.spin, g.band, g.kpt, g.row, orbital_index)
                         ELSE 0)
              ELSE expected
    /\ UNCHANGED <<fn, header, ispin, num_kpt, num_band, ion_index, orbital_index>>
    /\ UNCHANGED <<exp_klist, band_vars, tot_vars, scatter_vars, kpath_vars>>
    /\ UNCHANGED aux_vars

(* the file ends: the loop is left and the array is returned *)
OrbEndOfFile ==
    /\ fn = "orb"
    /\ pc = "scan"
    /\ AtBlockBoundary
    /\ pc' = "done"
    /\ wf' = (wf /\ g.phase = "E")
    /\ UNCHANGED <<fn, err, header, ispin, num_kpt, num_band>>
    /\ UNCHANGED <<current_kpt, current_band, current_spin, line>>
    /\ UNCHANGED <<file_ions, g, clean, ndev, expected, exp_klist>>
    /\ UNCHANGED <<orb_vars, band_vars, tot_vars, scatter_vars, kpath_vars>>
    /\ UNCHANGED aux_vars

NextOrb ==
    \/ OrbReadHeader
    \/ OrbKPointLine
    \/ OrbBandLine
    \/ OrbSkippedLine
    \/ OrbIonRow
    \/ OrbEndOfFile

SpecOrb == InitOrb /\ [][NextOrb]_vars

(***************************************************************************)
(* Either extractor on the same files.                                     *)
(***************************************************************************)
InitProcar == InitBand \/ InitOrb

NextProcar == NextBand \/ NextOrb

SpecProcar == InitProcar /\ [][NextProcar]_vars

(***************************************************************************)
(* get_tot_index_from_procar: every line of the file is tested, the two    *)
(* header lines included.                                                  *)
(***************************************************************************)
IdleProcar ==
    /\ fn = "none" /\ pc = "idle" /\ err = "none" /\ header = <<>>
    /\ ispin = 1 /\ num_kpt = 0 /\ num_band = 0
    /\ current_kpt = -1 /\ current_band = -1 /\ current_spin = 0
    /\ line = NoLine
    /\ band_energies = <<>> /\ klist = <<>>
    /\ ion_index = 0 /\ orbital_index = 0 /\ ion_line_counter = 0 /\ band_data = <<>>
    /\ file_ions = 1 /\ g = StartOfFile /\ wf = TRUE /\ clean = TRUE /\ ndev = 0
    /\ expected = <<>> /\ exp_klist = <<>>

TotLineChoices ==
    { <<W_ion, W_s, W_tot>>,
      <<W_ion, W_tot, W_s>>,
      <<W_ion, W_s, W_total>>,
      <<W_ion, W_s>>,
      <<W_tot, DecimalText(9), DecimalText(9)>>,
      <<NatText(1), DecimalText(5), DecimalText(9)>>,
      GoodHeader(1, 1, 1),
      <<>> }

RECURSIVE FilesUpTo(_)
FilesUpTo(n) ==
    IF n = 0 THEN { <<>> }
    ELSE FilesUpTo(n - 1)
           \cup { Append(f, ln) : f \in { x \in FilesUpTo(n - 1) : Len(x) = n - 1 },
                                  ln \in TotLineChoices }

(* line.strip().startswith('ion') and 'tot' in line *)
IsTotHeader(ln) == StartsWith(ln, W_ion) /\ LineContains(ln, W_tot)

(* line.strip().split()[1:].index('tot'): the 0-based position, -1 when    *)
(* 'tot' is no token of the rest, where list.index raises ValueError       *)
TotColumn(ln) == IndexOf(Tail(ln), W_tot) - 1

InitTot ==
    /\ IdleProcar
    /\ IdleScatter
    /\ IdleKPath
    /\ tot_file \in FilesUpTo(MaxTotLines)
    /\ tot_pos = 0
    /\ tot_ret = [st |-> "running", v |-> 0]
    /\ IdleAux

(* line 678-680: one line of the file *)
TotReadLine ==
    /\ tot_ret.st = "running"
    /\ tot_pos < Len(tot_file)
    /\ tot_pos' = tot_pos + 1
    /\ LET ln == tot_file[tot_pos + 1]
       IN  tot_ret' =
             IF ~IsTotHeader(ln) THEN tot_ret
             ELSE IF TotColumn(ln) < 0 THEN [st |-> "ValueError", v |-> 0]
             ELSE [st |-> "returned", v |-> TotColumn(ln)]
    /\ UNCHANGED <<tot_file, scan_vars, band_vars, orb_vars, file_vars, scatter_vars, kpath_vars>>
    /\ UNCHANGED aux_vars

(* the file is exhausted: the function falls off its end and returns None *)
TotEndOfFile ==
    /\ tot_ret.st = "running"
    /\ tot_pos = Len(tot_file)
    /\ tot_ret' = [st |-> "None", v |-> 0]
    /\ UNCHANGED <<tot_file, tot_pos, scan_vars, band_vars, orb_vars, file_vars, scatter_vars, kpath_vars>>
    /\ UNCHANGED aux_vars

NextTot == TotReadLine \/ TotEndOfFile

SpecTot == InitTot /\ [][NextTot]_vars

(***************************************************************************)
(* orbscatter, lines 151-179: the loop over ORBITAL_INFO.  An entry is     *)
(* (atom_list, element_name, orbital_list); the name only makes the        *)
(* legend.  calls lists the calls of the orbital extractor, in order.      *)
(***************************************************************************)
TotIndexChoices == {1, 2}

AtomLists == { <<0>>, <<0, 1>> }

OrbitalLists(t) ==
    LET vals == {0, t, t + 1}
    IN  { <<>> } \cup { <<a>> : a \in vals } \cup { <<a, b>> : a \in vals, b \in vals }

EntryChoices(t) ==
    { [atoms |-> al, orbitals |-> ol] : al \in AtomLists, ol \in OrbitalLists(t) }

RECURSIVE EntryListsUpTo(_, _)
EntryListsUpTo(n, t) ==
    IF n = 0 THEN { <<>> }
    ELSE EntryListsUpTo(n - 1, t)
           \cup { Append(d, e) : d \in { x \in EntryListsUpTo(n - 1, t) : Len(x) = n - 1 },
                                 e \in EntryChoices(t) }

InList(x, l) == \E i \in 1..Len(l) : l[i] = x

(* the test of line 155 with the limit one too high *)
ExceedsTot_LimitOffByOne(ol, t) == \E i \in 1..Len(ol) : ol[i] > t + 1

(* lines 154-156: an orbital index above the 'tot' column *)
ExceedsTot(ol, t) == \E i \in 1..Len(ol) : ol[i] > t

(* the test of line 157 with the length compared against 2 *)
MixesTot_LengthOffByOne(ol, t) == Len(ol) > 2 /\ InList(t, ol)

(* line 157: len(orbital_list) > 1 and tot_ind in orbital_list *)
MixesTot(ol, t) == Len(ol) > 1 /\ InList(t, ol)

(* lines 165-170: the extractor called for one atom and orbital *)
ExtractorCalled(flag) ==
    IF flag THEN "orbvis_orbital_specific_band_data_from_PROCAR_SOC"
    ELSE "orbvis_orbital_specific_band_data_from_PROCAR"

InitScatter ==
    /\ IdleProcar
    /\ IdleTot
    /\ IdleKPath
    /\ tot_ind \in TotIndexChoices
    /\ data \in EntryListsUpTo(MaxEntries, tot_ind)
    /\ entry_i = 0 /\ calls = <<>>
    /\ sc_pc = "loop" /\ sc_err = "none" /\ sc_i = 0 /\ sc_j = 0
    /\ IdleAux

(* line 151: the next entry, or the end of the loop *)
ScatterNextEntry ==
    /\ sc_pc = "loop"
    /\ IF entry_i < Len(data)
       THEN entry_i' = entry_i + 1 /\ sc_pc' = "validate"
       ELSE entry_i' = entry_i /\ sc_pc' = "plot"
    /\ UNCHANGED <<data, tot_ind, sc_err, sc_i, sc_j, calls>>
    /\ UNCHANGED <<scan_vars, band_vars, orb_vars, file_vars, tot_vars, kpath_vars>>
    /\ UNCHANGED aux_vars

(* lines 152-161: the two tests on the entry's orbital list *)
ScatterValidate ==
    /\ sc_pc = "validate"
    /\ LET ol == data[entry_i].orbitals
       IN  IF ExceedsTot(ol, tot_ind)
           THEN sc_pc' = "error" /\ sc_err' = "exceeds total index"
           ELSE IF MixesTot(ol, tot_ind)
           THEN sc_pc' = "error" /\ sc_err' = "mix of tot with others"
           ELSE sc_pc' = "extract" /\ sc_err' = sc_err
    /\ sc_i' = 1 /\ sc_j' = 1
    /\ UNCHANGED <<data, tot_ind, entry_i, calls>>
    /\ UNCHANGED <<scan_vars, band_vars, orb_vars, file_vars, tot_vars, kpath_vars>>
    /\ UNCHANGED aux_vars

(* lines 163-179: one call of the extractor, for atom sc_i and orbital     *)
(* sc_j of the entry; with the lists exhausted the entry is appended       *)
ScatterExtract ==
    /\ sc_pc = "extract"
    /\ LET al == data[entry_i].atoms
           ol == data[entry_i].orbitals
       IN  IF sc_i > Len(al) \/ Len(ol) = 0
           THEN /\ sc_pc' = "loop"
                /\ UNCHANGED <<sc_i, sc_j, calls>>
           ELSE /\ calls' = Append(calls, [entry |-> entry_i, atom |-> al[sc_i],
                                           orbital |-> ol[sc_j],
                                           fn |-> ExtractorCalled(soc)])
                /\ IF sc_j < Len(ol)
                   THEN sc_j' = sc_j + 1 /\ sc_i' = sc_i
                   ELSE sc_j' = 1 /\ sc_i' = sc_i + 1
                /\ sc_pc' = sc_pc
    /\ UNCHANGED <<data, tot_ind, entry_i, sc_err>>
    /\ UNCHANGED <<scan_vars, band_vars, orb_vars, file_vars, tot_vars, kpath_vars>>
    /\ UNCHANGED aux_vars

NextScatter == ScatterNextEntry \/ ScatterValidate \/ ScatterExtract

SpecScatter == InitScatter /\ [][NextScatter]_vars

(***************************************************************************)
(* orbscatter from its parameters to the plot: the SOC flag, the reader of *)
(* the band tensor, the selection of its columns, the loop over the        *)
(* entries (the three actions above) and the branch that plots.  A         *)
(* parameter value is the sequence of the characters of str(value).        *)
(***************************************************************************)
SocChoices ==
    { <<"T", "r", "u", "e">>, <<"O", "N">>, <<"1">>,
      <<"F", "a", "l", "s", "e">>, <<"o", "f", "f">> }

IspinChoices == {1, 2, 3}

(* str.lower() on the letters of the values above *)
LowerChar(c) ==
    CASE c = "T" -> "t" [] c = "O" -> "o" [] c = "N" -> "n" [] c = "F" -> "f"
      [] OTHER -> c

Lower(str) == [i \in 1..Len(str) |-> LowerChar(str[i])]

(* line 42 without .lower() *)
SocFlag_CaseSensitive(v) ==
    v \in { <<"t", "r", "u", "e">>, <<"o", "n">>, <<"1">> }

(* line 42: str(params["SOC"]).lower() in ("true", "on", "1") *)
SocFlag(v) ==
    Lower(v) \in { <<"t", "r", "u", "e">>, <<"o", "n">>, <<"1">> }

InitOrbscatter ==
    /\ IdleProcar /\ IdleTot /\ IdleKPath
    /\ IdleInsert /\ IdleTicks /\ IdleDos /\ IdleSoc /\ IdleExt
    /\ SOC \in SocChoices /\ ISPIN \in IspinChoices
    /\ soc = FALSE /\ eff_ispin = 1
    /\ os_pc = "params" /\ reader = "none" /\ selection = 0 /\ panels = 0
    /\ tot_ind \in TotIndexChoices
    /\ data \in EntryListsUpTo(MaxEntries, tot_ind)
    /\ entry_i = 0 /\ calls = <<>>
    /\ sc_pc = "idle" /\ sc_err = "none" /\ sc_i = 0 /\ sc_j = 0

(* lines 30 and 42 *)
OsParams ==
    /\ os_pc = "params"
    /\ eff_ispin' = ISPIN
    /\ soc' = SocFlag(SOC)
    /\ os_pc' = "load"
    /\ UNCHANGED <<SOC, ISPIN, reader, selection, panels>>
    /\ UNCHANGED <<ext_vars, core_vars, ins_vars, tick_vars, dos_vars, soc_vars>>

(* lines 90-94: the reader of the band tensor; the plain reader refuses an *)
(* ispin other than 1 and 2 (parser.py lines 616-621)                      *)
OsLoad ==
    /\ os_pc = "load"
    /\ IF soc
       THEN /\ reader' = "read_band_energies_and_klist_from_PROCAR_SOC"
            /\ eff_ispin' = 1
            /\ os_pc' = "select"
       ELSE /\ reader' = "read_band_energies_and_klist_from_PROCAR"
            /\ eff_ispin' = eff_ispin
            /\ os_pc' = IF eff_ispin \in {1, 2} THEN "select" ELSE "ValueError"
    /\ UNCHANGED <<SOC, ISPIN, soc, selection, panels>>
    /\ UNCHANGED <<ext_vars, core_vars, ins_vars, tick_vars, dos_vars, soc_vars>>

(* lines 132-135: bs[:, idx_selected] or bs[:, :, idx_selected]; the loop  *)
(* over the entries follows                                                *)
OsSelect ==
    /\ os_pc = "select"
    /\ selection' = IF eff_ispin = 1 THEN 2 ELSE 3
    /\ os_pc' = "entries"
    /\ sc_pc' = "loop"
    /\ UNCHANGED <<SOC, ISPIN, soc, eff_ispin, reader, panels>>
    /\ UNCHANGED <<data, tot_ind, entry_i, sc_err, sc_i, sc_j, calls>>
    /\ UNCHANGED <<scan_vars, band_vars, orb_vars, file_vars, tot_vars, kpath_vars>>
    /\ UNCHANGED <<ext_vars, ins_vars, tick_vars, dos_vars, soc_vars>>

(* lines 182 and 219: one panel, or one panel for each spin channel *)
OsPlot ==
    /\ os_pc = "entries"
    /\ sc_pc = "plot"
    /\ panels' = IF eff_ispin = 1 THEN 1 ELSE 2
    /\ os_pc' = "plotted"
    /\ UNCHANGED <<SOC, ISPIN, soc, eff_ispin, reader, selection>>
    /\ UNCHANGED <<ext_vars, core_vars, ins_vars, tick_vars, dos_vars, soc_vars>>

NextOrbscatter ==
    \/ OsParams
    \/ OsLoad
    \/ OsSelect
    \/ ScatterNextEntry
    \/ ScatterValidate
    \/ ScatterExtract
    \/ OsPlot

SpecOrbscatter == InitOrbscatter /\ [][NextOrbscatter]_vars

(***************************************************************************)
(* clean_kpoints (utils.py).  A k-point table is a sequence of rows        *)
(* <<index, kx, ky, kz, weight>>.  Coordinates are integers in units of    *)
(* 1/Grid, weights integers in units of 0.0005, so that every comparison   *)
(* of the code is decided exactly.                                         *)
(***************************************************************************)
Grid == 64

(* weight_tol=1e-3, in units of 0.0005 *)
weight_tol == 2

Abs(x) == IF x < 0 THEN -x ELSE x

PointChoices == { <<0, 0, 0>>, <<12, 0, 0>>, <<24, 0, 0>>, <<36, 2, 0>> }

WeightChoices == {0, 1, 2, 500}

RowChoices == { <<p[1], p[2], p[3], w>> : p \in PointChoices, w \in WeightChoices }

(* the tables of n rows; row i carries index i - 1, as the band reader     *)
(* writes it (parser.py line 646)                                          *)
RECURSIVE TablesOfLen(_)
TablesOfLen(n) ==
    IF n = 0 THEN { <<>> }
    ELSE { Append(t, <<n - 1, r[1], r[2], r[3], r[4]>>) :
             t \in TablesOfLen(n - 1), r \in RowChoices }

(* every table taken as uniformly weighted *)
UniformWeights_Always(t) == TRUE

(* line 63: np.all(np.abs(weights - weights[0]) < weight_tol) *)
UniformWeights(t) == \A i \in 1..Len(t) : Abs(t[i][5] - t[1][5]) < weight_tol

(* the filter of line 66 applied whatever the weights *)
KeptRows_AlwaysMasked(t) == SelectSeq(t, LAMBDA r : Abs(r[5]) < weight_tol)

(* lines 63-66 *)
KeptRows(t) ==
    IF UniformWeights(t) THEN t
    ELSE SelectSeq(t, LAMBDA r : Abs(r[5]) < weight_tol)

(* no two coordinates taken as close *)
CloseCoord_Never(a, b) == FALSE

(* np.allclose(a, b, atol=1e-8) with the default rtol=1e-5, on one         *)
(* coordinate: |a - b| <= atol + rtol * |b|.  In grid units this reads     *)
(* |a - b| * 10^5 <= Grid * 10^-3 + |b|, and Grid * 10^-3 < 1 adds nothing *)
(* between integers.                                                       *)
CloseCoord(a, b) == Abs(a - b) * 100000 <= Abs(b)

(* line 74 with a relative tolerance of 1 *)
AllClose_LooseTolerance(p, q) == \A c \in 1..3 : Abs(p[c] - q[c]) <= Abs(q[c])

(* line 74: np.allclose(prev_k, current_k, atol=1e-8) *)
AllClose(p, q) == \A c \in 1..3 : CloseCoord(p[c], q[c])

Coords(row) == <<row[2], row[3], row[4]>>

Diff(p, q) == <<p[1] - q[1], p[2] - q[2], p[3] - q[3]>>

Dot(u, v) == u[1] * v[1] + u[2] * v[2] + u[3] * v[3]

(* lines 31-37 and the test angle > angle_tolerance_deg of line 95, for    *)
(* angle_tolerance_deg = 5.0: the angle exceeds 5 degrees when the cosine  *)
(* is below cos(5 deg), that is when it is not positive or its square is   *)
(* below cos(5 deg)^2 = 0.992403..; 2481/2500 = 0.9924 separates the same  *)
(* vectors of the grid.  Zero vectors give the angle 0.0 (line 35).        *)
AngleExceeds(v1, v2) ==
    IF Dot(v1, v1) = 0 \/ Dot(v2, v2) = 0 THEN FALSE
    ELSE IF Dot(v1, v2) <= 0 THEN TRUE
    ELSE Dot(v1, v2) * Dot(v1, v2) * 2500 < 2481 * Dot(v1, v1) * Dot(v2, v2)

(* line 95 with the threshold 0.5 *)
JumpExceeds_HalfUnit(v) == 4 * Dot(v, v) > Grid * Grid

(* lines 93 and 95: np.linalg.norm(k_curr - k_prev) > jump_threshold, for  *)
(* jump_threshold = 0.2: the squared length exceeds 1/25                   *)
JumpExceeds(v) == 25 * Dot(v, v) > Grid * Grid

(* the test of line 95 without the jump *)
IsHighSym_AngleOnly(prev, curr, next) ==
    AngleExceeds(Diff(curr, prev), Diff(next, curr))

(* the test of line 95 with `and` for `or` *)
IsHighSym_Both(prev, curr, next) ==
    /\ AngleExceeds(Diff(curr, prev), Diff(next, curr))
    /\ JumpExceeds(Diff(curr, prev))

(* lines 85-95 *)
IsHighSym(prev, curr, next) ==
    \/ AngleExceeds(Diff(curr, prev), Diff(next, curr))
    \/ JumpExceeds(Diff(curr, prev))

(* line 98 left out *)
WithLast_Omitted(hs, cleaned) == hs

(* line 98 *)
WithLast(hs, cleaned) == Append(hs, cleaned[Len(cleaned)][1])

InitClean ==
    /\ IdleProcar /\ IdleTot /\ IdleScatter /\ IdleDist /\ IdlePlot
    /\ kp_pc = "filter" /\ kp_i = 0
    /\ \E n \in 1..MaxPath : k_point_array \in TablesOfLen(n)
    /\ band_kpoints = <<>> /\ cleaned_kpoints = <<>> /\ high_sym_indices = <<>>
    /\ IdleAux

(* lines 62-69 *)
CleanFilter ==
    /\ kp_pc = "filter"
    /\ band_kpoints' = KeptRows(k_point_array)
    /\ kp_pc' = "dedup" /\ kp_i' = 1
    /\ UNCHANGED <<k_point_array, cleaned_kpoints, high_sym_indices>>
    /\ UNCHANGED <<scan_vars, band_vars, orb_vars, file_vars, tot_vars, scatter_vars,
                   dist_vars, plot_vars>>
    /\ UNCHANGED aux_vars

(* lines 71-76: one row of band_kpoints; prev_k is the last point appended *)
CleanDedupRow ==
    /\ kp_pc = "dedup"
    /\ kp_i <= Len(band_kpoints)
    /\ LET row == band_kpoints[kp_i]
           n == Len(cleaned_kpoints)
       IN  IF n = 0 \/ ~AllClose(Coords(cleaned_kpoints[n]), Coords(row))
           THEN cleaned_kpoints' =
                  Append(cleaned_kpoints, <<row[1], row[2], row[3], row[4]>>)
           ELSE cleaned_kpoints' = cleaned_kpoints
    /\ kp_i' = kp_i + 1
    /\ UNCHANGED <<kp_pc, k_point_array, band_kpoints, high_sym_indices>>
    /\ UNCHANGED <<scan_vars, band_vars, orb_vars, file_vars, tot_vars, scatter_vars,
                   dist_vars, plot_vars>>
    /\ UNCHANGED aux_vars

(* lines 77-80: the first cleaned point opens the list; with no point left *)
(* by the filter cleaned_kpoints[0] raises IndexError                      *)
CleanFirst ==
    /\ kp_pc = "dedup"
    /\ kp_i > Len(band_kpoints)
    /\ IF Len(cleaned_kpoints) = 0
       THEN kp_pc' = "IndexError" /\ UNCHANGED high_sym_indices
       ELSE kp_pc' = "detect" /\ high_sym_indices' = <<cleaned_kpoints[1][1]>>
    /\ kp_i' = 1
    /\ UNCHANGED <<k_point_array, band_kpoints, cleaned_kpoints>>
    /\ UNCHANGED <<scan_vars, band_vars, orb_vars, file_vars, tot_vars, scatter_vars,
                   dist_vars, plot_vars>>
    /\ UNCHANGED aux_vars

(* lines 84-96: one i of range(1, len(cleaned_kpoints) - 1); kp_i is i *)
CleanDetect ==
    /\ kp_pc = "detect"
    /\ kp_i < Len(cleaned_kpoints) - 1
    /\ LET k_prev == Coords(cleaned_kpoints[kp_i])
           k_curr == Coords(cleaned_kpoints[kp_i + 1])
           k_next == Coords(cleaned_kpoints[kp_i + 2])
       IN  high_sym_indices' =
             IF IsHighSym(k_prev, k_curr, k_next)
             THEN Append(high_sym_indices, cleaned_kpoints[kp_i + 1][1])
             ELSE high_sym_indices
    /\ kp_i' = kp_i + 1
    /\ UNCHANGED <<kp_pc, k_point_array, band_kpoints, cleaned_kpoints>>
    /\ UNCHANGED <<scan_vars, band_vars, orb_vars, file_vars, tot_vars, scatter_vars,
                   dist_vars, plot_vars>>
    /\ UNCHANGED aux_vars

(* lines 98-103 *)
CleanReturn ==
    /\ kp_pc = "detect"
    /\ kp_i >= Len(cleaned_kpoints) - 1
    /\ high_sym_indices' = WithLast(high_sym_indices, cleaned_kpoints)
    /\ kp_pc' = "cleaned"
    /\ UNCHANGED <<kp_i, k_point_array, band_kpoints, cleaned_kpoints>>
    /\ UNCHANGED <<scan_vars, band_vars, orb_vars, file_vars, tot_vars, scatter_vars,
                   dist_vars, plot_vars>>
    /\ UNCHANGED aux_vars

NextClean == CleanFilter \/ CleanDedupRow \/ CleanFirst \/ CleanDetect \/ CleanReturn

SpecClean == InitClean /\ [][NextClean]_vars

(***************************************************************************)
(* compute_kpoint_distances (utils.py) and the part of orbscatter that     *)
(* uses it (plotter.py lines 127-146, 188-191, 231-236).  Lengths are in   *)
(* units of 1/Grid; the points of the paths form a right triangle with     *)
(* sides 12, 16 and 20, that is 0.1875, 0.25 and 0.3125, so that every     *)
(* square root is exact.  A scaled distance is a fraction in lowest terms; *)
(* NaN is the fraction 0/0.                                                *)
(***************************************************************************)
PathPoints == { <<0, 0, 0>>, <<12, 0, 0>>, <<12, 16, 0>> }

(* the cleaned lists of n points: consecutive points differ, and the       *)
(* indices increase by one from 0, all raised by one from point gap on     *)
RECURSIVE CleanedOfLen(_, _)
CleanedOfLen(n, gap) ==
    IF n = 0 THEN { <<>> }
    ELSE { Append(tp[1], <<(n - 1) + (IF gap > 0 /\ n >= gap THEN 1 ELSE 0),
                           tp[2][1], tp[2][2], tp[2][3]>>) :
             tp \in { x \in CleanedOfLen(n - 1, gap) \X PathPoints :
                        n = 1 \/ x[2] # Coords(x[1][n - 1]) } }

RECURSIVE GCD(_, _)
GCD(a, b) == IF b = 0 THEN a ELSE GCD(b, a % b)

Frac(a, b) == [n |-> a \div GCD(a, b), d |-> b \div GCD(a, b)]

Num(v) == [n |-> v, d |-> 1]

NaN == [n |-> 0, d |-> 0]

(* a <= b for two fractions of positive denominators *)
FracLeq(a, b) == a.n * b.d <= b.n * a.d

(* |a - b| for two fractions of positive denominators *)
Gap(a, b) == [n |-> Abs(a.n * b.d - b.n * a.d), d |-> a.d * b.d]

(* lines 106-108: math.sqrt(np.dot(dist_vector, dist_vector)) *)
dist_bw_two_kpoints(kpt1, kpt2) ==
    LET sq == Dot(Diff(kpt1, kpt2), Diff(kpt1, kpt2))
    IN  CHOOSE r \in 0..sq : r * r = sq

(* line 135 with >= for > *)
SegmentDist_CutoffIncluded(d_raw) == IF 4 * d_raw >= Grid THEN 0 ELSE d_raw

(* lines 135-138, for jump_cutoff = 0.25 = Grid / 4 units *)
SegmentDist(d_raw) == IF 4 * d_raw > Grid THEN 0 ELSE d_raw

(* line 149 with the target width left out *)
ScaledDist_WidthDropped(d, xs, total) ==
    IF total = 0 THEN Frac(d, Grid) ELSE Frac(d, total)

(* lines 146-149: d * (x_scale / total_length), or d itself when           *)
(* total_length is 0                                                       *)
ScaledDist(d, xs, total) ==
    IF total = 0 THEN Frac(d, Grid) ELSE Frac(d * xs, total)

(* line 151 with the position in the list for the index *)
IndexColumn_Positions(cleaned) == [i \in 1..Len(cleaned) |-> i - 1]

(* line 151: indices = [int(row[0]) for row in cleaned_kpoints] *)
IndexColumn(cleaned) == [i \in 1..Len(cleaned) |-> cleaned[i][1]]

(* plotter.py line 142 without the + 1 *)
DiscontinuityIndices_NoShift(x) ==
    SelectSeq([i \in 1..(Len(x) - 1) |-> i - 1], LAMBDA i : x[i + 2] = x[i + 1])

(* plotter.py line 142: np.where(np.diff(x_arr_raw) == 0)[0] + 1, the      *)
(* 0-based positions i with x[i] - x[i-1] == 0, ascending                  *)
DiscontinuityIndices(x) ==
    SelectSeq([i \in 1..(Len(x) - 1) |-> i], LAMBDA i : x[i + 1] = x[i])

(* utils.py lines 169-174 on one row: np.split at the positions, a NaN     *)
(* after every part but the last                                           *)
RECURSIVE InsertNaNs(_, _, _)
InsertNaNs(row, idxs, from) ==
    IF idxs = <<>> THEN SubSeq(row, from + 1, Len(row))
    ELSE SubSeq(row, from + 1, Head(idxs)) \o <<NaN>>
           \o InsertNaNs(row, Tail(idxs), Head(idxs))

(* the NaN columns put into the first spin slice only *)
insert_discontinuities_FirstSliceOnly(arr, idxs, ndim) ==
    IF ndim = 2
    THEN [b \in DOMAIN arr |-> InsertNaNs(arr[b], idxs, 0)]
    ELSE [sp \in DOMAIN arr |->
            [b \in DOMAIN arr[sp] |->
               IF sp = 1 THEN InsertNaNs(arr[sp][b], idxs, 0) ELSE arr[sp][b]]]

(* utils.py lines 157-186 *)
insert_discontinuities(arr, idxs, ndim) ==
    IF ndim = 2
    THEN [b \in DOMAIN arr |-> InsertNaNs(arr[b], idxs, 0)]
    ELSE [sp \in DOMAIN arr |-> [b \in DOMAIN arr[sp] |-> InsertNaNs(arr[sp][b], idxs, 0)]]

(* the band tensor and the orbital series read from the file: value        *)
(* 1000 * series + 100 * spin + 10 * band + k-point, series 0 the energies *)
Tensor2(series, sp, nk) ==
    [b \in 1..MaxBand |-> [k \in 1..nk |-> Num(1000 * series + 100 * sp + 10 * b + k)]]

Tensor(series, isp, nk) ==
    IF isp = 1 THEN Tensor2(series, 0, nk)
    ELSE [sp \in 1..2 |-> Tensor2(series, sp - 1, nk)]

(* arr[:, idx_selected] *)
Columns(rows, idx) == [b \in DOMAIN rows |-> [c \in 1..Len(idx) |-> rows[b][idx[c] + 1]]]

(* the number of k-points of the file a cleaned list comes from *)
FileKpts(cleaned) == cleaned[Len(cleaned)][1] + 1

InitPath ==
    /\ IdleProcar /\ IdleTot /\ IdleScatter /\ IdlePlot
    /\ kp_pc = "dist" /\ kp_i = 1
    /\ k_point_array = <<>> /\ band_kpoints = <<>> /\ high_sym_indices = <<>>
    /\ \E n \in 1..MaxPath : \E gap \in 0..n :
         cleaned_kpoints \in CleanedOfLen(n, gap)
    /\ x_scale \in {1, 3}
    /\ raw_dists = <<0>> /\ segment_dists = <<0>> /\ cumulative_dists = <<0>>
    /\ scaled_dists = <<>> /\ full_data = <<>> /\ reduced_data = <<>>
    /\ IdleAux

(* utils.py lines 131-142: one i of range(1, num_kpts); kp_i is i *)
DistSegment ==
    /\ kp_pc = "dist"
    /\ kp_i < Len(cleaned_kpoints)
    /\ LET d_raw == dist_bw_two_kpoints(Coords(cleaned_kpoints[kp_i]),
                                        Coords(cleaned_kpoints[kp_i + 1]))
           d == SegmentDist(d_raw)
       IN  /\ raw_dists' = Append(raw_dists, d_raw)
           /\ segment_dists' = Append(segment_dists, d)
           /\ cumulative_dists' =
                Append(cumulative_dists, cumulative_dists[Len(cumulative_dists)] + d)
    /\ kp_i' = kp_i + 1
    /\ UNCHANGED <<kp_pc, clean_vars, x_scale, scaled_dists, full_data, reduced_data>>
    /\ UNCHANGED <<scan_vars, band_vars, orb_vars, file_vars, tot_vars, scatter_vars,
                   plot_vars>>
    /\ UNCHANGED aux_vars

(* utils.py lines 144-154 *)
DistScale ==
    /\ kp_pc = "dist"
    /\ kp_i >= Len(cleaned_kpoints)
    /\ LET total_length == cumulative_dists[Len(cumulative_dists)]
           scaled == [i \in 1..Len(cumulative_dists) |->
                        ScaledDist(cumulative_dists[i], x_scale, total_length)]
           indices == IndexColumn(cleaned_kpoints)
       IN  /\ scaled_dists' = scaled
           /\ full_data' = [i \in 1..Len(indices) |->
                              <<indices[i], segment_dists[i], cumulative_dists[i], scaled[i]>>]
           /\ reduced_data' = [i \in 1..Len(indices) |-> <<indices[i], scaled[i]>>]
    /\ kp_pc' = "measured"
    /\ UNCHANGED <<kp_i, clean_vars, x_scale, raw_dists, segment_dists, cumulative_dists>>
    /\ UNCHANGED <<scan_vars, band_vars, orb_vars, file_vars, tot_vars, scatter_vars,
                   plot_vars>>
    /\ UNCHANGED aux_vars

(* plotter.py lines 130-142: the selected columns, the x coordinates and   *)
(* the discontinuity positions (efermi is None)                            *)
PlotSelect ==
    /\ kp_pc = "measured"
    /\ \E isp \in {1, 2} :
         LET idx_selected == [i \in 1..Len(reduced_data) |-> reduced_data[i][1]]
             bs == Tensor(0, isp, FileKpts(cleaned_kpoints))
         IN  /\ plot_ispin' = isp
             /\ bs_selected' =
                  IF isp = 1 THEN Columns(bs, idx_selected)
                  ELSE [sp \in 1..2 |-> Columns(bs[sp], idx_selected)]
    /\ x_arr' = [i \in 1..Len(reduced_data) |-> reduced_data[i][2]]
    /\ discontinuity_indices' =
         DiscontinuityIndices([i \in 1..Len(reduced_data) |-> reduced_data[i][2]])
    /\ procar_k' = <<>>
    /\ kp_pc' = "selected"
    /\ UNCHANGED <<kp_i, clean_vars, dist_vars>>
    /\ UNCHANGED <<scan_vars, band_vars, orb_vars, file_vars, tot_vars, scatter_vars>>
    /\ UNCHANGED aux_vars

(* plotter.py lines 145-146 *)
PlotInsert ==
    /\ kp_pc = "selected"
    /\ x_arr' = insert_discontinuities(<<x_arr>>, discontinuity_indices, 2)[1]
    /\ bs_selected' =
         insert_discontinuities(bs_selected, discontinuity_indices, plot_ispin + 1)
    /\ kp_pc' = "series"
    /\ UNCHANGED <<kp_i, clean_vars, dist_vars, plot_ispin, procar_k,
                   discontinuity_indices>>
    /\ UNCHANGED <<scan_vars, band_vars, orb_vars, file_vars, tot_vars, scatter_vars>>
    /\ UNCHANGED aux_vars

(* plotter.py lines 188-191 (ispin 1) and 231-236 (ispin 2): one series of *)
(* all_procar_data, here two series                                        *)
PlotSeries ==
    /\ kp_pc = "series"
    /\ LET i == Len(procar_k) + 1
           idx_selected == [c \in 1..Len(reduced_data) |-> reduced_data[c][1]]
           data_i == Tensor(i, plot_ispin, FileKpts(cleaned_kpoints))
       IN  procar_k' = Append(procar_k,
             IF plot_ispin = 1
             THEN insert_discontinuities(Columns(data_i, idx_selected),
                                         discontinuity_indices, 2)
             ELSE [sp \in 1..2 |->
                     insert_discontinuities(Columns(data_i[sp], idx_selected),
                                            discontinuity_indices, 2)])
    /\ kp_pc' = IF Len(procar_k) + 1 = 2 THEN "plotted" ELSE kp_pc
    /\ UNCHANGED <<kp_i, clean_vars, dist_vars, plot_ispin, bs_selected, x_arr,
                   discontinuity_indices>>
    /\ UNCHANGED <<scan_vars, band_vars, orb_vars, file_vars, tot_vars, scatter_vars>>
    /\ UNCHANGED aux_vars

NextPath == DistSegment \/ DistScale \/ PlotSelect \/ PlotInsert \/ PlotSeries

SpecPath == InitPath /\ [][NextPath]_vars

(***************************************************************************)
(* insert_discontinuities called on its own: an array of one, two or three *)
(* dimensions with up to MaxCols k-point columns, and an ascending list of *)
(* split positions among 0..n.                                             *)
(***************************************************************************)
IdleCore == IdleProcar /\ IdleTot /\ IdleScatter /\ IdleKPath

(* the elements of a set of numbers in ascending order *)
RECURSIVE Ascending(_)
Ascending(S) ==
    IF S = {} THEN <<>>
    ELSE LET m == CHOOSE x \in S : \A y \in S : x <= y
         IN  <<m>> \o Ascending(S \ {m})

PositionLists(n) == { Ascending(S) : S \in SUBSET (0..n) }

(* arr.ndim of 1: one series of n values; of 2: (band, k-point); of 3:     *)
(* (spin, band, k-point)                                                   *)
ArrayOf(ndim, series, n) ==
    CASE ndim = 1 -> Tensor2(series, 0, n)[1]
      [] ndim = 2 -> Tensor2(series, 0, n)
      [] OTHER -> Tensor(series, 2, n)

(* utils.py lines 169 and 176: the two branches that return *)
SupportedShape_TwoOnly(ndim) == ndim = 2

SupportedShape(ndim) == ndim \in {2, 3}

InitInsert ==
    /\ IdleCore /\ IdleTicks /\ IdleDos /\ IdleShape /\ IdleSoc /\ IdleExt
    /\ ins_pc = "call"
    /\ ins_ndim \in {1, 2, 3}
    /\ \E n \in 1..MaxCols, series \in {0, 1} :
         /\ ins_arr = ArrayOf(ins_ndim, series, n)
         /\ ins_at \in PositionLists(n)
    /\ ins_ret = <<>>

(* utils.py lines 169-184 *)
InsertReturn ==
    /\ ins_pc = "call"
    /\ SupportedShape(ins_ndim)
    /\ ins_ret' = insert_discontinuities(ins_arr, ins_at, ins_ndim)
    /\ ins_pc' = "returned"
    /\ UNCHANGED <<ext_vars, ins_arr, ins_ndim, ins_at, core_vars, tick_vars, dos_vars, shape_vars, soc_vars>>

(* utils.py lines 185-186 *)
InsertRaise ==
    /\ ins_pc = "call"
    /\ ~SupportedShape(ins_ndim)
    /\ ins_pc' = "ValueError"
    /\ UNCHANGED <<ext_vars, ins_arr, ins_ndim, ins_at, ins_ret, core_vars, tick_vars, dos_vars, shape_vars, soc_vars>>

NextInsert == InsertReturn \/ InsertRaise

SpecInsert == InitInsert /\ [][NextInsert]_vars

(***************************************************************************)
(* merge_close_ticks.  Positions and the tolerance are whole numbers of    *)
(* one unit; a label is the sequence of its characters, so that joining    *)
(* with '|' is a concatenation.  Up to MaxTicks positions and, apart, up   *)
(* to MaxTicks labels are passed.                                          *)
(***************************************************************************)
PositionChoices == 0..3

TolChoices == {0, 1, 2}

LabelChoices == { <<"G">>, <<"X">> }

RECURSIVE ListsOfLen(_, _)
ListsOfLen(S, n) ==
    IF n = 0 THEN { <<>> }
    ELSE { Append(q, x) : q \in ListsOfLen(S, n - 1), x \in S }

ListsUpTo(S, n) == UNION { ListsOfLen(S, k) : k \in 0..n }

(* utils.py line 201, with lists of one tick refused as well *)
InvalidTicks_SingleRejected(vals, labels) ==
    Len(vals) <= 1 \/ labels = <<>> \/ Len(vals) # Len(labels)

(* utils.py line 201 *)
InvalidTicks(vals, labels) ==
    vals = <<>> \/ labels = <<>> \/ Len(vals) # Len(labels)

(* utils.py line 211 with < in place of <= *)
Close_Strict(v, current_val, t) ==
    Abs(v.n * current_val.d - current_val.n * v.d) * t.d
        < t.n * v.d * current_val.d

(* utils.py line 211: abs(tick_vals[i] - current_val) <= tol, for          *)
(* positions and a tolerance that are fractions n/d of positive            *)
(* denominators                                                            *)
Close(v, current_val, t) ==
    Abs(v.n * current_val.d - current_val.n * v.d) * t.d
        <= t.n * v.d * current_val.d

(* the new label put before the running one *)
JoinLabel_Prepended(current_label, lab) == lab \o <<"|">> \o current_label

(* utils.py line 212: current_label += "|" + tick_labels[i] *)
JoinLabel(current_label, lab) == current_label \o <<"|">> \o lab

(* lines 211-217 with current_val moved to every position that is merged *)
MergeStep_AnchorMoves(st, v, lab, t) ==
    IF Close(v, st.current_val, t)
    THEN [st EXCEPT !.current_val = v, !.current_label = JoinLabel(@, lab)]
    ELSE [merged_vals |-> Append(st.merged_vals, st.current_val),
          merged_labels |-> Append(st.merged_labels, st.current_label),
          current_val |-> v, current_label |-> lab]

(* utils.py lines 211-217: the body of the loop for one i *)
MergeStep(st, v, lab, t) ==
    IF Close(v, st.current_val, t)
    THEN [st EXCEPT !.current_label = JoinLabel(@, lab)]
    ELSE [merged_vals |-> Append(st.merged_vals, st.current_val),
          merged_labels |-> Append(st.merged_labels, st.current_label),
          current_val |-> v, current_label |-> lab]

(* utils.py lines 210-221: the loop from i on (i is 1-based here), and the *)
(* last tick appended after it                                             *)
RECURSIVE MergeLoop(_, _, _, _, _)
MergeLoop(vals, labels, t, i, st) ==
    IF i > Len(vals)
    THEN [vals |-> Append(st.merged_vals, st.current_val),
          labels |-> Append(st.merged_labels, st.current_label)]
    ELSE MergeLoop(vals, labels, t, i + 1, MergeStep(st, vals[i], labels[i], t))

(* utils.py lines 204-223, for lists that pass line 201 *)
merge_close_ticks(vals, labels, t) ==
    MergeLoop(vals, labels, t, 2,
              [merged_vals |-> <<>>, merged_labels |-> <<>>,
               current_val |-> vals[1], current_label |-> labels[1]])

InitTicks ==
    /\ IdleCore /\ IdleInsert /\ IdleDos /\ IdleShape /\ IdleSoc /\ IdleExt
    /\ mt_pc = "call"
    /\ tick_vals \in ListsUpTo({ Num(p) : p \in PositionChoices }, MaxTicks)
    /\ tick_labels \in ListsUpTo(LabelChoices, MaxTicks)
    /\ tick_tol \in { Num(t) : t \in TolChoices }
    /\ merged_vals = <<>> /\ merged_labels = <<>>
    /\ again_vals = <<>> /\ again_labels = <<>>

(* utils.py lines 201-202 *)
TicksRaise ==
    /\ mt_pc = "call"
    /\ InvalidTicks(tick_vals, tick_labels)
    /\ mt_pc' = "ValueError"
    /\ UNCHANGED <<tick_vals, tick_labels, tick_tol, merged_vals, merged_labels,
                   again_vals, again_labels>>
    /\ UNCHANGED <<ext_vars, core_vars, ins_vars, dos_vars, shape_vars, soc_vars>>

(* utils.py lines 204-223 *)
TicksReturn ==
    /\ mt_pc = "call"
    /\ ~InvalidTicks(tick_vals, tick_labels)
    /\ LET r == merge_close_ticks(tick_vals, tick_labels, tick_tol)
       IN  merged_vals' = r.vals /\ merged_labels' = r.labels
    /\ mt_pc' = "returned"
    /\ UNCHANGED <<tick_vals, tick_labels, tick_tol, again_vals, again_labels>>
    /\ UNCHANGED <<ext_vars, core_vars, ins_vars, dos_vars, shape_vars, soc_vars>>

(* merge_close_ticks called on what it returned, with the same tol *)
TicksAgain ==
    /\ mt_pc = "returned"
    /\ ~InvalidTicks(merged_vals, merged_labels)
    /\ LET r == merge_close_ticks(merged_vals, merged_labels, tick_tol)
       IN  again_vals' = r.vals /\ again_labels' = r.labels
    /\ mt_pc' = "again"
    /\ UNCHANGED <<tick_vals, tick_labels, tick_tol, merged_vals, merged_labels>>
    /\ UNCHANGED <<ext_vars, core_vars, ins_vars, dos_vars, shape_vars, soc_vars>>

NextTicks == TicksRaise \/ TicksReturn \/ TicksAgain

SpecTicks == InitTicks /\ [][NextTicks]_vars

(***************************************************************************)
(* orbscatter from clean_kpoints to the discontinuity positions            *)
(* (plotter.py lines 97 and 118-142): the k-point table is cleaned, the    *)
(* tick labels are read, the cleaned points are measured, the tick         *)
(* positions are looked up and the ticks that fall together are merged.    *)
(***************************************************************************)
(* points of one line of the reciprocal cell: the steps between them are   *)
(* 0.1875 (below jump_threshold), 0.21875 (between jump_threshold and      *)
(* jump_cutoff) and 0.375 and more (above jump_cutoff)                     *)
PipePoints == { <<0, 0, 0>>, <<12, 0, 0>>, <<26, 0, 0>>, <<50, 0, 0>> }

PipeWeights == {0, 500}

RECURSIVE PipeTables(_)
PipeTables(n) ==
    IF n = 0 THEN { <<>> }
    ELSE { Append(t, <<n - 1, p[1], p[2], p[3], w>>) :
             t \in PipeTables(n - 1), p \in PipePoints, w \in PipeWeights }

(* the entry of the position of the index in the list *)
DictGet_ByPosition(pairs, key) ==
    IF key + 1 \in 1..Len(pairs) THEN pairs[key + 1][2] ELSE NaN

(* key in dict(pairs) *)
HasKey(pairs, key) == \E j \in 1..Len(pairs) : pairs[j][1] = key

(* plotter.py line 128: dict(reduced_data)[i]; the last pair of a key is   *)
(* the one the dict keeps                                                  *)
DictGet(pairs, key) ==
    LET at == { j \in 1..Len(pairs) : pairs[j][1] = key }
    IN  pairs[CHOOSE j \in at : \A k \in at : k <= j][2]

InitPipeline ==
    /\ IdleProcar /\ IdleTot /\ IdleScatter /\ IdleDist /\ IdlePlot
    /\ kp_pc = "filter" /\ kp_i = 0
    /\ \E n \in 1..MaxPath : k_point_array \in PipeTables(n)
    /\ band_kpoints = <<>> /\ cleaned_kpoints = <<>> /\ high_sym_indices = <<>>
    /\ IdleAux

(* what the user types at line 118, stripped and split into words:         *)
(* nothing, "0", or the two labels "G X"                                   *)
LabelInputs == { <<>>, << <<"0">> >>, << <<"G">>, <<"X">> >> }

(* plotter.py line 120: [f"K{i}" for i in range(len(hs))] *)
DefaultLabels(n) == [i \in 1..n |-> <<"K">> \o NatText(i - 1)]

(* plotter.py lines 118-124: the default labels when the input is empty or *)
(* "0"; otherwise its words, which must be as many as the high-symmetry    *)
(* indices (unicode_escape leaves a word without a backslash as it is)     *)
PipeLabels ==
    /\ kp_pc = "cleaned"
    /\ \E label_input \in LabelInputs :
          IF label_input = <<>> \/ label_input = << <<"0">> >>
          THEN /\ tick_labels' = DefaultLabels(Len(high_sym_indices))
               /\ kp_pc' = "labelled"
          ELSE IF Len(label_input) # Len(high_sym_indices)
          THEN kp_pc' = "ValueError" /\ UNCHANGED tick_labels
          ELSE tick_labels' = label_input /\ kp_pc' = "labelled"
    /\ UNCHANGED <<kp_i, clean_vars, dist_vars, plot_vars>>
    /\ UNCHANGED <<scan_vars, band_vars, orb_vars, file_vars, tot_vars, scatter_vars>>
    /\ UNCHANGED <<mt_pc, tick_vals, tick_tol, merged_vals, merged_labels,
                   again_vals, again_labels>>
    /\ UNCHANGED <<ext_vars, ins_vars, dos_vars, shape_vars, soc_vars>>

(* plotter.py line 127: compute_kpoint_distances(kl_new, x_scale=3);       *)
(* utils.py lines 125-129                                                  *)
PipeMeasure ==
    /\ kp_pc = "labelled"
    /\ kp_pc' = "dist" /\ kp_i' = 1
    /\ x_scale' = 3
    /\ raw_dists' = <<0>> /\ segment_dists' = <<0>> /\ cumulative_dists' = <<0>>
    /\ UNCHANGED <<clean_vars, scaled_dists, full_data, reduced_data, plot_vars>>
    /\ UNCHANGED <<scan_vars, band_vars, orb_vars, file_vars, tot_vars, scatter_vars>>
    /\ UNCHANGED aux_vars

(* plotter.py line 128: tick_vals = [dict(reduced_data)[i] for i in hs] *)
PipeTicks ==
    /\ kp_pc = "measured"
    /\ IF \E j \in 1..Len(high_sym_indices) : ~HasKey(reduced_data, high_sym_indices[j])
       THEN kp_pc' = "KeyError" /\ UNCHANGED tick_vals
       ELSE /\ kp_pc' = "ticks"
            /\ tick_vals' = [j \in 1..Len(high_sym_indices) |->
                               DictGet(reduced_data, high_sym_indices[j])]
    /\ UNCHANGED <<kp_i, clean_vars, dist_vars, plot_vars>>
    /\ UNCHANGED <<scan_vars, band_vars, orb_vars, file_vars, tot_vars, scatter_vars>>
    /\ UNCHANGED <<mt_pc, tick_labels, tick_tol, merged_vals, merged_labels,
                   again_vals, again_labels>>
    /\ UNCHANGED <<ext_vars, ins_vars, dos_vars, shape_vars, soc_vars>>

(* plotter.py line 129: tol=1e-5 *)
PlotTol == [n |-> 1, d |-> 100000]

(* plotter.py line 129:                                                    *)
(* tick_vals, labels = merge_close_ticks(tick_vals, labels, tol=1e-5)      *)
PipeMergeTicks ==
    /\ kp_pc = "ticks"
    /\ IF InvalidTicks(tick_vals, tick_labels)
       THEN kp_pc' = "ValueError" /\ UNCHANGED <<tick_vals, tick_labels>>
       ELSE /\ kp_pc' = "merged"
            /\ LET r == merge_close_ticks(tick_vals, tick_labels, PlotTol)
               IN  tick_vals' = r.vals /\ tick_labels' = r.labels
    /\ UNCHANGED <<kp_i, clean_vars, dist_vars, plot_vars>>
    /\ UNCHANGED <<scan_vars, band_vars, orb_vars, file_vars, tot_vars, scatter_vars>>
    /\ UNCHANGED <<mt_pc, tick_tol, merged_vals, merged_labels,
                   again_vals, again_labels>>
    /\ UNCHANGED <<ext_vars, ins_vars, dos_vars, shape_vars, soc_vars>>

(* plotter.py lines 139-142: the x coordinates and the discontinuity       *)
(* positions                                                               *)
PipeSelect ==
    /\ kp_pc = "merged"
    /\ x_arr' = [i \in 1..Len(reduced_data) |-> reduced_data[i][2]]
    /\ discontinuity_indices' =
         DiscontinuityIndices([i \in 1..Len(reduced_data) |-> reduced_data[i][2]])
    /\ kp_pc' = "selected"
    /\ UNCHANGED <<kp_i, clean_vars, dist_vars, plot_ispin, bs_selected, procar_k>>
    /\ UNCHANGED <<scan_vars, band_vars, orb_vars, file_vars, tot_vars, scatter_vars>>
    /\ UNCHANGED aux_vars

NextPipeline ==
    \/ CleanFilter
    \/ CleanDedupRow
    \/ CleanFirst
    \/ CleanDetect
    \/ CleanReturn
    \/ PipeLabels
    \/ PipeMeasure
    \/ DistSegment
    \/ DistScale
    \/ PipeTicks
    \/ PipeMergeTicks
    \/ PipeSelect

SpecPipeline == InitPipeline /\ [][NextPipeline]_vars

(***************************************************************************)
(* The DOSCAR readers of dos/parser.py.  A DOSCAR has five header lines, a *)
(* line whose third number is NEDOS, NEDOS rows of the total DOS, and for  *)
(* every atom the same line again and NEDOS rows of its orbitals.  A row   *)
(* starts with the energy; with one spin channel a column follows for      *)
(* every quantity, with two an up and a down column for every quantity.    *)
(* Numbers are in tenths, as in the PROCAR files.                          *)
(***************************************************************************)
DosAtoms == {0, 1}

DosOrbitals == {0, 1}

(* the number at 0-based column c of row r of block b (0 the total DOS,    *)
(* a + 1 the atom a), column 0 being the energy                            *)
DosNumber(b, r, c) == IF c = 0 THEN 5 + r ELSE 100 * (b + 1) + 10 * r + c

(* a row of a block: the total DOS has the DOS and its integral, an atom   *)
(* has its orbitals                                                        *)
DosRowLine(b, r, fisp) ==
    LET quantities == IF b = 0 THEN 2 ELSE Cardinality(DosOrbitals)
    IN  [c \in 1..(1 + quantities * fisp) |-> DecimalText(DosNumber(b, r, c - 1))]

(* the line with NEDOS: Emax, Emin, NEDOS, Efermi, 1.0 *)
DosMetaLine(n) ==
    <<DecimalText(200), DecimalText(-100), NatText(n), DecimalText(31), DecimalText(10)>>

DosBlock(b, n, fisp) == [r \in 1..n |-> DosRowLine(b, r - 1, fisp)]

RECURSIVE DosAtomBlocks(_, _, _)
DosAtomBlocks(a, n, fisp) ==
    IF a = 0 THEN <<>>
    ELSE DosAtomBlocks(a - 1, n, fisp) \o <<DosMetaLine(n)>> \o DosBlock(a, n, fisp)

Doscar(n, fisp) ==
    [i \in 1..5 |-> <<W_hash>>] \o <<DosMetaLine(n)>> \o DosBlock(0, n, fisp)
        \o DosAtomBlocks(Cardinality(DosAtoms), n, fisp)

(* the line before the rows of the atom not skipped *)
LinesBeforeAtom_HeaderNotSkipped(n, ai) == n + ai * (1 + n)

(* dos/parser.py lines 72-80: the total block, the blocks of the atoms     *)
(* before, and the line before the rows of the atom                        *)
LinesBeforeAtom(n, ai) == n + ai * (1 + n) + 1

(* line 93 and line 50: the 0-based column of the up value *)
UpColumn(fnc, oi) == IF fnc = "total" THEN 1 ELSE 1 + 2 * oi

(* the down value read where the file of one spin channel has the next orbital *)
DownColumn_NextColumn(fnc, oi) == IF fnc = "total" THEN 2 ELSE 2 + oi

(* line 94 and line 50: the 0-based column of the down value *)
DownColumn(fnc, oi) == IF fnc = "total" THEN 2 ELSE 2 + 2 * oi

(* lines 43 and 86: the 0-based column of the only value *)
OnlyColumn(fnc, oi) == IF fnc = "total" THEN 1 ELSE 1 + oi

(* float(parts[c]) *)
DosFloat(parts, c) == FloatVal(parts[c + 1])

InitDos ==
    /\ IdleCore /\ IdleInsert /\ IdleTicks /\ IdleShape /\ IdleSoc /\ IdleExt
    /\ dos_fn \in {"total", "atom"}
    /\ dos_pc = "skip"
    /\ dos_ispin \in {1, 2, 3}
    /\ \E n \in 1..MaxNedos : doscar = Doscar(n, IF dos_ispin = 3 THEN 1 ELSE dos_ispin)
    /\ IF dos_fn = "atom"
       THEN atom_index \in DosAtoms /\ dos_orbital \in DosOrbitals
       ELSE atom_index = 0 /\ dos_orbital = 0
    /\ dos_pos = 0 /\ to_skip = 5
    /\ nedos = 0 /\ E = <<>> /\ DOS = <<>>

(* one next(f) of lines 29-30, 65-66, 72-73, 77-78 or 80 *)
DosSkipLine ==
    /\ dos_pc = "skip"
    /\ to_skip > 0
    /\ dos_pos' = dos_pos + 1
    /\ to_skip' = to_skip - 1
    /\ UNCHANGED <<dos_fn, dos_pc, doscar, dos_ispin, atom_index, dos_orbital, nedos, E, DOS>>
    /\ UNCHANGED <<ext_vars, core_vars, ins_vars, tick_vars, shape_vars, soc_vars>>

(* lines 32-33 and 68-69: the sixth line; the atom reader then has the     *)
(* lines of lines 72-80 to skip                                            *)
DosReadMeta ==
    /\ dos_pc = "skip"
    /\ to_skip = 0
    /\ dos_pos = 5
    /\ nedos' = IntVal(doscar[dos_pos + 1][3])
    /\ dos_pos' = dos_pos + 1
    /\ to_skip' = IF dos_fn = "atom" THEN LinesBeforeAtom(nedos', atom_index) ELSE 0
    /\ dos_pc' = IF dos_fn = "atom" THEN "skip" ELSE "branch"
    /\ UNCHANGED <<dos_fn, doscar, dos_ispin, atom_index, dos_orbital, E, DOS>>
    /\ UNCHANGED <<ext_vars, core_vars, ins_vars, tick_vars, shape_vars, soc_vars>>

(* the atom reader has skipped to the rows of its atom *)
DosSkipped ==
    /\ dos_pc = "skip"
    /\ to_skip = 0
    /\ dos_pos > 5
    /\ dos_pc' = "branch"
    /\ UNCHANGED <<dos_fn, doscar, dos_ispin, atom_index, dos_orbital, dos_pos, to_skip,
                   nedos, E, DOS>>
    /\ UNCHANGED <<ext_vars, core_vars, ins_vars, tick_vars, shape_vars, soc_vars>>

(* lines 39, 46, 53-54 and 82, 89, 98-99 *)
DosBranch ==
    /\ dos_pc = "branch"
    /\ dos_pc' = IF dos_ispin \in {1, 2} THEN "rows" ELSE "ValueError"
    /\ UNCHANGED <<dos_fn, doscar, dos_ispin, atom_index, dos_orbital, dos_pos, to_skip,
                   nedos, E, DOS>>
    /\ UNCHANGED <<ext_vars, core_vars, ins_vars, tick_vars, shape_vars, soc_vars>>

(* lines 40-43, 47-50, 84-86 and 91-95: one row *)
DosRow ==
    /\ dos_pc = "rows"
    /\ Len(DOS) < nedos
    /\ LET parts == doscar[dos_pos + 1]
       IN  /\ E' = IF dos_fn = "total" THEN Append(E, DosFloat(parts, 0)) ELSE E
           /\ DOS' = Append(DOS,
                       IF dos_ispin = 1
                       THEN DosFloat(parts, OnlyColumn(dos_fn, dos_orbital))
                       ELSE <<DosFloat(parts, UpColumn(dos_fn, dos_orbital)),
                              DosFloat(parts, DownColumn(dos_fn, dos_orbital))>>)
    /\ dos_pos' = dos_pos + 1
    /\ UNCHANGED <<dos_fn, dos_pc, doscar, dos_ispin, atom_index, dos_orbital, to_skip, nedos>>
    /\ UNCHANGED <<ext_vars, core_vars, ins_vars, tick_vars, shape_vars, soc_vars>>

(* lines 44, 51, 87 and 96 *)
DosReturn ==
    /\ dos_pc = "rows"
    /\ Len(DOS) >= nedos
    /\ dos_pc' = "returned"
    /\ UNCHANGED <<dos_fn, doscar, dos_ispin, atom_index, dos_orbital, dos_pos, to_skip,
                   nedos, E, DOS>>
    /\ UNCHANGED <<ext_vars, core_vars, ins_vars, tick_vars, shape_vars, soc_vars>>

NextDos ==
    \/ DosSkipLine
    \/ DosReadMeta
    \/ DosSkipped
    \/ DosBranch
    \/ DosRow
    \/ DosReturn

SpecDos == InitDos /\ [][NextDos]_vars

(***************************************************************************)
(* The SOC orbital extractor, orbvis_orbital_specific_band_data_from_      *)
(* PROCAR_SOC, which plotter.py imports and calls with (path, atom,        *)
(* orbital).  It walks the file as the orbital extractor above does for    *)
(* one spin channel.  In a spin-orbit-coupled PROCAR the ion rows and the  *)
(* tot row of a band are followed by three more sub-blocks of ion rows,    *)
(* each closed by a tot row; a flag set at a band header and cleared at a  *)
(* tot row tells the rows of the first sub-block, the only ones read, from *)
(* the rows of the others.                                                 *)
(***************************************************************************)
(* the number in column c of ion r in sub-block sb of band b of k-point k *)
SocRowNumber(sb, b, k, r, c) == RowNumber(0, b, k, r, c) + 2000 * sb

SocDataRow(sb, b, k, r) ==
    <<NatText(r + 1)>>
      \o [c \in 1..Len(OrbitalColumns) |-> DecimalText(SocRowNumber(sb, b, k, r, c - 1))]

(* the place in the layout after a tot row *)
SocAfterTot ==
    IF g_sub < 3 THEN [g |-> [g EXCEPT !.phase = "R", !.row = 0], sub |-> g_sub + 1]
    ELSE IF g.band < num_band - 1 THEN [g |-> [g EXCEPT !.phase = "B"], sub |-> 0]
    ELSE IF g.kpt < num_kpt - 1 THEN [g |-> [g EXCEPT !.phase = "K"], sub |-> 0]
    ELSE [g |-> [g EXCEPT !.phase = "E"], sub |-> 0]

(* the lines the file may hold next, a blank line among them *)
SocEmit ==
    (CASE g.phase = "K" ->
            { [line |-> KPointHeader(0, g.kpt + 1, glued),
               g |-> [g EXCEPT !.phase = "B", !.kpt = g.kpt + 1, !.band = -1],
               sub |-> 0] : glued \in BOOLEAN }
       [] g.phase = "B" ->
            { [line |-> BandHeader(g.band + 1,
                                   DecimalText(EnergyNumber(0, g.band + 1, g.kpt))),
               g |-> [g EXCEPT !.phase = "I", !.band = g.band + 1],
               sub |-> 0] }
       [] g.phase = "I" ->
            { [line |-> IonHeader, g |-> [g EXCEPT !.phase = "R", !.row = 0], sub |-> 0] }
       [] g.phase = "R" ->
            { [line |-> SocDataRow(g_sub, g.band, g.kpt, g.row),
               g |-> [g EXCEPT !.row = g.row + 1,
                               !.phase = IF g.row + 1 = file_ions THEN "T" ELSE "R"],
               sub |-> g_sub] }
       [] g.phase = "T" ->
            { [line |-> TotRow, g |-> SocAfterTot.g, sub |-> SocAfterTot.sub] }
       [] OTHER -> {})
      \cup { [line |-> <<>>, g |-> g, sub |-> g_sub] }

SocFileStep(e) ==
    /\ g' = e.g
    /\ g_sub' = e.sub
    /\ line' = e.line
    /\ UNCHANGED <<file_ions, wf, clean, ndev>>

(* an ion row counted whatever the flag says *)
SocRow_FlagIgnored(flag, counter, ion) ==
    [counter |-> counter + 1, selected |-> IsSelectedRow(counter + 1, ion)]

(* an ion row: counted, and compared with the requested ion, only while    *)
(* the flag says first sub-block                                           *)
SocRow(flag, counter, ion) ==
    [counter |-> IF flag THEN counter + 1 ELSE counter,
     selected |-> flag /\ IsSelectedRow(counter + 1, ion)]

InitSoc ==
    /\ fn = "soc"
    /\ InitCommon
    /\ ispin = 1
    /\ band_energies = <<>> /\ klist = <<>>
    /\ ion_index \in 0..(MaxIons - 1)
    /\ orbital_index \in 0..Len(OrbitalColumns)
    /\ ion_line_counter = 0 /\ band_data = <<>>

(* the two header lines, the array of shape (bands, k-points), the counters *)
SocReadHeader ==
    /\ fn = "soc"
    /\ pc = "start"
    /\ IF HeaderError(header, 1) # "none"
       THEN /\ Raise(HeaderError(header, 1))
            /\ UNCHANGED <<num_kpt, num_band, band_data, expected>>
       ELSE /\ pc' = "scan" /\ err' = err
            /\ num_kpt' = HeaderCount(header, W_kpoints_colon).v
            /\ num_band' = HeaderCount(header, W_bands_colon).v
            /\ band_data' = AllocTensor(1, num_band', num_kpt')
            /\ expected' = AllocTensor(1, num_band', num_kpt')
    /\ UNCHANGED <<fn, header, ispin, current_kpt, current_band, current_spin, line>>
    /\ UNCHANGED <<ion_index, orbital_index, ion_line_counter>>
    /\ UNCHANGED <<file_ions, g, wf, clean, ndev, exp_klist>>
    /\ UNCHANGED <<band_vars, tot_vars, scatter_vars, kpath_vars>>
    /\ UNCHANGED aux_vars

SocKPointLine ==
    /\ fn = "soc"
    /\ pc = "scan"
    /\ \E e \in SocEmit :
         /\ StartsWith(e.line, W_kpoint)
         /\ SocFileStep(e)
    /\ current_kpt' = current_kpt + 1
    /\ current_band' = -1
    /\ ion_line_counter' = 0
    /\ UNCHANGED <<fn, pc, err, header, ispin, num_kpt, num_band, current_spin>>
    /\ UNCHANGED <<ion_index, orbital_index, band_data, expected, exp_klist>>
    /\ UNCHANGED <<band_vars, tot_vars, scatter_vars, kpath_vars>>
    /\ UNCHANGED <<ext_vars, ins_vars, tick_vars, dos_vars, shape_vars, in_first_block>>

(* a band header: the first sub-block of the band begins *)
SocBandLine ==
    /\ fn = "soc"
    /\ pc = "scan"
    /\ \E e \in SocEmit :
         /\ ~StartsWith(e.line, W_kpoint)
         /\ StartsWith(e.line, W_band)
         /\ SocFileStep(e)
    /\ current_band' = current_band + 1
    /\ ion_line_counter' = 0
    /\ in_first_block' = TRUE
    /\ UNCHANGED <<fn, pc, err, header, ispin, num_kpt, num_band, current_spin, current_kpt>>
    /\ UNCHANGED <<ion_index, orbital_index, band_data, expected, exp_klist>>
    /\ UNCHANGED <<band_vars, tot_vars, scatter_vars, kpath_vars>>
    /\ UNCHANGED <<ext_vars, ins_vars, tick_vars, dos_vars, shape_vars>>

(* blank lines and the ion header *)
SocSkippedLine ==
    /\ fn = "soc"
    /\ pc = "scan"
    /\ \E e \in SocEmit :
         /\ \/ IsBlank(e.line)
            \/ /\ ~StartsWith(e.line, W_kpoint)
               /\ ~StartsWith(e.line, W_band)
               /\ StartsWith(e.line, W_ion)
         /\ SocFileStep(e)
    /\ UNCHANGED <<fn, pc, err, header, ispin, num_kpt, num_band>>
    /\ UNCHANGED <<current_kpt, current_band, current_spin>>
    /\ UNCHANGED <<orb_vars, expected, exp_klist, band_vars, tot_vars, scatter_vars, kpath_vars>>
    /\ UNCHANGED <<ext_vars, ins_vars, tick_vars, dos_vars, shape_vars, in_first_block>>

(* a tot row closes a sub-block: the rows that follow are skipped *)
SocTotLine ==
    /\ fn = "soc"
    /\ pc = "scan"
    /\ \E e \in SocEmit :
         /\ ~StartsWith(e.line, W_kpoint)
         /\ ~StartsWith(e.line, W_band)
         /\ ~StartsWith(e.line, W_ion)
         /\ StartsWith(e.line, W_tot)
         /\ SocFileStep(e)
    /\ in_first_block' = FALSE
    /\ UNCHANGED <<fn, pc, err, header, ispin, num_kpt, num_band>>
    /\ UNCHANGED <<current_kpt, current_band, current_spin>>
    /\ UNCHANGED <<orb_vars, expected, exp_klist, band_vars, tot_vars, scatter_vars, kpath_vars>>
    /\ UNCHANGED <<ext_vars, ins_vars, tick_vars, dos_vars, shape_vars>>

(* every other line is an ion row *)
SocIonRow ==
    /\ fn = "soc"
    /\ pc = "scan"
    /\ \E e \in SocEmit :
         /\ ~IsBlank(e.line)
         /\ ~StartsWith(e.line, W_kpoint)
         /\ ~StartsWith(e.line, W_band)
         /\ ~StartsWith(e.line, W_ion)
         /\ ~StartsWith(e.line, W_tot)
         /\ SocFileStep(e)
         /\ LET counted == current_kpt >= 0 /\ current_band >= 0
                r == SocRow(in_first_block, ion_line_counter, ion_index)
            IN  /\ ion_line_counter' = IF counted THEN r.counter ELSE ion_line_counter
                /\ band_data' =
                     IF counted /\ r.selected
                     THEN Store(band_data, 0, current_band, current_kpt,
                                OrbValue(e.line, orbital_index).v)
                     ELSE band_data
         /\ expected' =
              IF g_sub = 0 /\ g.row = ion_index
              THEN Store(expected, 0, g.band, g.kpt,
                         IF orbital_index < Len(OrbitalColumns)
                         THEN SocRowNumber(0, g.band, g.kpt, g.row, orbital_index)
                         ELSE 0)
              ELSE expected
    /\ UNCHANGED <<fn, pc, err, header, ispin, num_kpt, num_band>>
    /\ UNCHANGED <<current_kpt, current_band, current_spin, ion_index, orbital_index>>
    /\ UNCHANGED <<exp_klist, band_vars, tot_vars, scatter_vars, kpath_vars>>
    /\ UNCHANGED <<ext_vars, ins_vars, tick_vars, dos_vars, shape_vars, in_first_block>>

(* the file ends, after any band: the array is returned *)
SocEndOfFile ==
    /\ fn = "soc"
    /\ pc = "scan"
    /\ AtBlockBoundary
    /\ pc' = "done"
    /\ wf' = (wf /\ g.phase = "E")
    /\ UNCHANGED <<fn, err, header, ispin, num_kpt, num_band>>
    /\ UNCHANGED <<current_kpt, current_band, current_spin, line>>
    /\ UNCHANGED <<file_ions, g, clean, ndev, expected, exp_klist>>
    /\ UNCHANGED <<orb_vars, band_vars, tot_vars, scatter_vars, kpath_vars>>
    /\ UNCHANGED aux_vars

NextSoc ==
    \/ SocReadHeader
    \/ SocKPointLine
    \/ SocBandLine
    \/ SocSkippedLine
    \/ SocTotLine
    \/ SocIonRow
    \/ SocEndOfFile

SpecSoc == InitSoc /\ [][NextSoc]_vars

(***************************************************************************)
(* The colour handling of orbscatter (band/plotter.py lines 45-84) and of  *)
(* plot_pdos (dos/plotter.py lines 46-68).  A colour is the sequence of    *)
(* its characters.                                                         *)
(***************************************************************************)
HexDigits ==
    {"0", "1", "2", "3", "4", "5", "6", "7", "8", "9", "a", "b", "c", "d", "e", "f"}

(* the named colours of matplotlib used here *)
NamedHex ==
    (<<"b", "l", "u", "e">> :> <<"#", "0", "0", "0", "0", "f", "f">>)
      @@ (<<"r", "e", "d">> :> <<"#", "f", "f", "0", "0", "0", "0">>)

(* the colours of a COLOR_SCHEME list: a hex colour with '#', one without, *)
(* a name of four letters and a name of three letters                      *)
ColourChoices ==
    { <<"#", "f", "0", "0">>, <<"0", "f", "0">>, <<"b", "l", "u", "e">>, <<"r", "e", "d">> }

(* the names get_cmap knows, and one it does not *)
CmapNames == {"viridis"}

CmapChoices == {"viridis", "nocmap"}

RECURSIVE ColourLists(_)
ColourLists(n) ==
    IF n = 0 THEN { <<>> }
    ELSE { Append(l, c) : l \in ColourLists(n - 1), c \in ColourChoices }

(* a value of COLOR_SCHEME: its type, and its colours, its name or its     *)
(* number                                                                  *)
Scheme(kind, colours, name, number) ==
    [kind |-> kind, colours |-> colours, name |-> name, number |-> number]

SchemeChoices ==
    { Scheme("list", l, "", 0) : l \in UNION { ColourLists(n) : n \in 0..MaxColors } }
      \cup { Scheme("str", <<>>, name, 0) : name \in CmapChoices }
      \cup { Scheme("int", <<>>, "", i) : i \in {0, 1, 2} }
      \cup { Scheme("other", <<>>, "", 0) }

(* band/plotter.py lines 50-52 and dos/utils.py lines 22-24: '#' put       *)
(* before a string of 6 or 3 characters that does not start with it        *)
WithHash(c_str) ==
    IF c_str[1] # "#" /\ Len(c_str) \in {6, 3} THEN <<"#">> \o c_str ELSE c_str

(* mcolors.to_hex raises no ValueError: '#' and 3 or 6 hex digits, or a    *)
(* named colour                                                            *)
ValidColour(c) ==
    IF c[1] = "#"
    THEN Len(c) \in {4, 7} /\ \A i \in 2..Len(c) : c[i] \in HexDigits
    ELSE c \in DOMAIN NamedHex

(* mcolors.to_hex of a valid colour: '#rrggbb' *)
to_hex(c) ==
    IF c[1] = "#"
    THEN (IF Len(c) = 7 THEN c ELSE <<"#", c[2], c[2], c[3], c[3], c[4], c[4]>>)
    ELSE NamedHex[c]

DigitChar(k) == <<"0", "1", "2", "3", "4", "5", "6", "7", "8", "9">>[k + 1]

(* [get_hex(c) for c in get_colors(n)] and the same with pastel_factor:    *)
(* n colours, all different                                                *)
Generated(n, pastel) ==
    [k \in 1..n |-> <<"#", IF pastel THEN "c" ELSE "0", "0", "0", "0", "0", DigitChar(k)>>]

(* the colour of a colormap at i / den *)
Sampled(name, i, den) == <<"#", "a", "a", "a", "a", DigitChar(i), DigitChar(den)>>

(* band/plotter.py line 71: num_cases - 1; dos/plotter.py line 57:         *)
(* max(1, num_cases - 1)                                                   *)
SampleDenominator(fnc, n) ==
    IF fnc = "plot_pdos" THEN (IF n - 1 > 1 THEN n - 1 ELSE 1) ELSE n - 1

InitColours ==
    /\ IdleCore /\ IdleInsert /\ IdleTicks /\ IdleDos /\ IdleShape /\ IdleSoc
    /\ IdleConfig
    /\ cs_fn \in {"orbscatter", "plot_pdos"}
    /\ COLOR_SCHEME \in SchemeChoices
    /\ num_cases \in 1..MaxCases
    /\ cs_pc = "call"
    /\ processed_colors = <<>> /\ color_scheme = <<>>

(* band/plotter.py lines 47-58 and dos/plotter.py line 47: one colour of   *)
(* the list                                                                *)
ColListColour ==
    /\ cs_pc = "call"
    /\ COLOR_SCHEME.kind = "list"
    /\ Len(processed_colors) < Len(COLOR_SCHEME.colours)
    /\ LET c_str == WithHash(COLOR_SCHEME.colours[Len(processed_colors) + 1])
       IN  IF ValidColour(c_str)
           THEN processed_colors' = Append(processed_colors, to_hex(c_str))
                  /\ UNCHANGED cs_pc
           ELSE cs_pc' = "ValueError" /\ UNCHANGED processed_colors
    /\ UNCHANGED <<cs_fn, COLOR_SCHEME, num_cases, color_scheme>>
    /\ UNCHANGED <<core_vars, ins_vars, tick_vars, dos_vars, shape_vars, soc_vars, cfg_vars>>

(* band/plotter.py lines 60-68 and dos/plotter.py lines 48-53 *)
ColListSize ==
    /\ cs_pc = "call"
    /\ COLOR_SCHEME.kind = "list"
    /\ Len(processed_colors) = Len(COLOR_SCHEME.colours)
    /\ color_scheme' =
         IF Len(processed_colors) < num_cases
         THEN processed_colors \o Generated(num_cases - Len(processed_colors), FALSE)
         ELSE SubSeq(processed_colors, 1, num_cases)
    /\ cs_pc' = "resolved"
    /\ UNCHANGED <<cs_fn, COLOR_SCHEME, num_cases, processed_colors>>
    /\ UNCHANGED <<core_vars, ins_vars, tick_vars, dos_vars, shape_vars, soc_vars, cfg_vars>>

(* band/plotter.py lines 69-74 and dos/plotter.py lines 54-59: every       *)
(* exception of the sampling, the division by zero included, is raised     *)
(* again as ValueError                                                     *)
ColMap ==
    /\ cs_pc = "call"
    /\ COLOR_SCHEME.kind = "str"
    /\ LET den == SampleDenominator(cs_fn, num_cases)
       IN  IF COLOR_SCHEME.name \notin CmapNames \/ den = 0
           THEN cs_pc' = "ValueError" /\ UNCHANGED color_scheme
           ELSE /\ color_scheme' =
                     [k \in 1..num_cases |-> Sampled(COLOR_SCHEME.name, k - 1, den)]
                /\ cs_pc' = "resolved"
    /\ UNCHANGED <<cs_fn, COLOR_SCHEME, num_cases, processed_colors>>
    /\ UNCHANGED <<core_vars, ins_vars, tick_vars, dos_vars, shape_vars, soc_vars, cfg_vars>>

(* band/plotter.py lines 75-81 and dos/plotter.py lines 60-66 *)
ColInt ==
    /\ cs_pc = "call"
    /\ COLOR_SCHEME.kind = "int"
    /\ IF COLOR_SCHEME.number \in {0, 1}
       THEN /\ color_scheme' = Generated(num_cases, COLOR_SCHEME.number = 1)
            /\ cs_pc' = "resolved"
       ELSE cs_pc' = "ValueError" /\ UNCHANGED color_scheme
    /\ UNCHANGED <<cs_fn, COLOR_SCHEME, num_cases, processed_colors>>
    /\ UNCHANGED <<core_vars, ins_vars, tick_vars, dos_vars, shape_vars, soc_vars, cfg_vars>>

(* band/plotter.py lines 82-83 and dos/plotter.py lines 67-68 *)
ColOther ==
    /\ cs_pc = "call"
    /\ COLOR_SCHEME.kind = "other"
    /\ cs_pc' = "ValueError"
    /\ UNCHANGED <<cs_fn, COLOR_SCHEME, num_cases, processed_colors, color_scheme>>
    /\ UNCHANGED <<core_vars, ins_vars, tick_vars, dos_vars, shape_vars, soc_vars, cfg_vars>>

NextColours ==
    \/ ColListColour
    \/ ColListSize
    \/ ColMap
    \/ ColInt
    \/ ColOther

SpecColours == InitColours /\ [][NextColours]_vars

(***************************************************************************)
(* VASPStyleParser (band/parser.py lines 7-196).  A line of the file is    *)
(* the sequence of its words; brackets, commas, '=' and '#' stand apart as *)
(* words of their own, so that counting a character in a line is counting  *)
(* a word.                                                                 *)
(***************************************************************************)
W_open == <<"[">>
W_close == <<"]">>
W_comma == <<",">>
W_ORBITAL_INFO == <<"O", "R", "B", "I", "T", "A", "L", "_", "I", "N", "F", "O">>
W_COLOR_SCHEME == <<"C", "O", "L", "O", "R", "_", "S", "C", "H", "E", "M", "E">>
W_ISPIN == <<"I", "S", "P", "I", "N">>
W_BOGUS == <<"B", "O", "G", "U", "S">>
W_Fe == <<"'", "F", "e", "'">>
W_O == <<"'", "O", "'">>
W_red == <<"'", "r", "e", "d", "'">>
W_blue == <<"'", "b", "l", "u", "e", "'">>
W_tab20 == <<"t", "a", "b", "2", "0">>

(* [[0], 'Fe', [0]] and [[1], 'O', [1]] *)
EntryFe ==
    <<W_open, W_open, <<"0">>, W_close, W_comma, W_Fe, W_comma,
      W_open, <<"0">>, W_close, W_close>>

EntryO ==
    <<W_open, W_open, <<"1">>, W_close, W_comma, W_O, W_comma,
      W_open, <<"1">>, W_close, W_close>>

(* the lines a file is made of: a value on one line, a value left open, a  *)
(* continuation that closes it, one that does not, closing brackets alone, *)
(* a key of one value with and without a comment, a comment, a blank line  *)
(* and a key the parser does not know                                      *)
CfgLineChoices ==
    { <<W_ORBITAL_INFO, W_eq, W_open>> \o EntryFe \o <<W_close>>,
      <<W_ORBITAL_INFO, W_eq, W_open>> \o EntryFe \o <<W_comma>>,
      EntryO \o <<W_close>>,
      EntryO \o <<W_comma>>,
      <<W_close>>,
      <<W_close, W_close>>,
      <<W_COLOR_SCHEME, W_eq, W_open, W_red, W_comma>>,
      <<W_blue, W_close>>,
      <<W_ISPIN, W_eq, <<"2">>>>,
      <<W_ISPIN, W_eq, <<"2">>, W_hash, W_close>>,
      <<W_hash, W_close>>,
      <<>>,
      <<W_BOGUS, W_eq, <<"1">>>> }

RECURSIVE CfgFiles(_)
CfgFiles(n) ==
    IF n = 0 THEN { <<>> }
    ELSE { Append(f, ln) : f \in CfgFiles(n - 1), ln \in CfgLineChoices }

(* line 14-28: the keys of self.params *)
KnownKeys == {W_ORBITAL_INFO, W_COLOR_SCHEME, W_ISPIN}

BufferedKeys == {W_ORBITAL_INFO, W_COLOR_SCHEME}

(* str.count of a one-character word *)
RECURSIVE Count(_, _)
Count(ln, w) ==
    IF ln = <<>> THEN 0
    ELSE (IF Head(ln) = w THEN 1 ELSE 0) + Count(Tail(ln), w)

(* line.count('[') - line.count(']') *)
Balance(ln) == Count(ln, W_open) - Count(ln, W_close)

(* lines 43-44: the line is blank or a comment *)
CfgSkipped(ln) == IF Len(ln) = 0 THEN TRUE ELSE ln[1] = W_hash

(* lines 46-47: line.split('#', 1)[0].strip() *)
StripComment(ln) ==
    IF IndexOf(ln, W_hash) = 0 THEN ln ELSE SubSeq(ln, 1, IndexOf(ln, W_hash) - 1)

(* the value is complete only at the balance 0 *)
ValueComplete_ZeroOnly(b) == b = 0

(* lines 52 and 69: bracket_balance <= 0 *)
ValueComplete(b) == b <= 0

IsQuoted(tok) == Len(tok) >= 2 /\ tok[1] = "'" /\ tok[Len(tok)] = "'"

ParseFailed == [ok |-> FALSE, val |-> NoneValue, next |-> 0]

(* ast.literal_eval on the words from position i: an int, a quoted string  *)
(* or a list of values between brackets, separated by commas, a comma      *)
(* allowed before the closing bracket                                      *)
RECURSIVE ParseValue(_, _)
RECURSIVE ParseItems(_, _, _)
ParseValue(toks, i) ==
    IF i > Len(toks) THEN ParseFailed
    ELSE IF IsInt(toks[i])
    THEN [ok |-> TRUE, val |-> [t |-> "int", v |-> <<toks[i]>>], next |-> i + 1]
    ELSE IF IsQuoted(toks[i])
    THEN [ok |-> TRUE, val |-> [t |-> "str", v |-> <<toks[i]>>], next |-> i + 1]
    ELSE IF toks[i] = W_open THEN ParseItems(toks, i + 1, <<>>)
    ELSE ParseFailed

ParseItems(toks, i, acc) ==
    IF i > Len(toks) THEN ParseFailed
    ELSE IF toks[i] = W_close
    THEN [ok |-> TRUE, val |-> [t |-> "list", v |-> acc], next |-> i + 1]
    ELSE LET r == ParseValue(toks, i)
         IN  IF ~r.ok \/ r.next > Len(toks) THEN ParseFailed
             ELSE IF toks[r.next] = W_comma
             THEN ParseItems(toks, r.next + 1, Append(acc, r.val))
             ELSE IF toks[r.next] = W_close
             THEN [ok |-> TRUE, val |-> [t |-> "list", v |-> Append(acc, r.val)],
                   next |-> r.next + 1]
             ELSE ParseFailed

(* lines 80-84: ast.literal_eval(buffer), the raw string when it fails *)
LiteralOrRaw(buf) ==
    LET r == ParseValue(buf, 1)
    IN  IF r.ok /\ r.next = Len(buf) + 1 THEN r.val ELSE [t |-> "str", v |-> buf]

IsListOf(val, kind) ==
    val.t = "list" /\ \A i \in 1..Len(val.v) : val.v[i].t = kind

(* lines 147-164: the message of _validate_orbital_info, "none" when it    *)
(* raises nothing. The loop of line 150 checks one entry after the other,  *)
(* so the message is the first fault of the first entry that has one.      *)
OrbitalInfoError(val) ==
    LET ItemError(item) ==
            IF ~(item.t = "list" /\ Len(item.v) = 3)
            THEN "Each ORBITAL_INFO entry must be [atom_indices, element, orbital_indices]."
            ELSE IF ~IsListOf(item.v[1], "int")
            THEN "atom_indices must be a list of integers."
            ELSE IF item.v[2].t # "str"
            THEN "element must be a string."
            ELSE IF ~IsListOf(item.v[3], "int")
            THEN "orbital_indices must be a list of integers."
            ELSE "none"
    IN  IF val.t # "list" THEN "ORBITAL_INFO must be a list."
        ELSE LET faulty == { i \in 1..Len(val.v) : ItemError(val.v[i]) # "none" }
             IN  IF faulty = {} THEN "none"
                 ELSE ItemError(val.v[CHOOSE i \in faulty : \A k \in faulty : i <= k])

(* lines 79-110 with PLOT_OPTION 0: the message of _parse_buffered_value,  *)
(* "none" when the value is stored                                         *)
BufferedError(key, val) ==
    IF key = W_ORBITAL_INFO THEN OrbitalInfoError(val)
    ELSE IF val.t \in {"int", "str"} \/ IsListOf(val, "str") THEN "none"
    ELSE "COLOR_SCHEME must be int, list of color strings, or colormap name string when PLOT_OPTION=0."

(* self.params with the value of a key replaced *)
WithParam(ps, key, val) ==
    IF key = W_ORBITAL_INFO THEN [ps EXCEPT !.ORBITAL_INFO = val]
    ELSE IF key = W_COLOR_SCHEME THEN [ps EXCEPT !.COLOR_SCHEME = val]
    ELSE [ps EXCEPT !.ISPIN = val]

(* lines 53-56 and 70-73: _parse_buffered_value(key, buf) and the locals   *)
(* reset, or the error it raises                                           *)
ParseBuffered(key, buf) ==
    LET parsed == LiteralOrRaw(buf)
        e == BufferedError(key, parsed)
    IN  /\ parse_calls' = parse_calls + 1
        /\ IF e = "none"
           THEN /\ params' = WithParam(params, key, parsed)
                /\ parsing_key' = <<>> /\ buffer' = <<>> /\ bracket_balance' = 0
                /\ UNCHANGED <<cfg_pc, cfg_err>>
           ELSE /\ cfg_pc' = "error" /\ cfg_err' = e
                /\ UNCHANGED <<params, parsing_key, buffer, bracket_balance>>

(* hasattr(cm, cs) for the names used here *)
IsColormapName(val) == val.v = <<W_tab20>>

InitConfig ==
    /\ IdleCore /\ IdleInsert /\ IdleTicks /\ IdleDos /\ IdleShape /\ IdleSoc
    /\ IdleColours
    /\ \E n \in 0..MaxCfgLines : cfg_lines \in CfgFiles(n)
    /\ cfg_pos = 0 /\ buffer = <<>> /\ parsing_key = <<>> /\ bracket_balance = 0
    /\ params = [ORBITAL_INFO |-> NoneValue, COLOR_SCHEME |-> NoneValue, ISPIN |-> 1]
    /\ cfg_pc = "parse" /\ cfg_err = "none" /\ parse_calls = 0

(* lines 42-44: a blank line or a comment *)
CfgSkipLine ==
    /\ cfg_pc = "parse"
    /\ cfg_pos < Len(cfg_lines)
    /\ CfgSkipped(cfg_lines[cfg_pos + 1])
    /\ cfg_pos' = cfg_pos + 1
    /\ UNCHANGED <<cfg_lines, buffer, parsing_key, bracket_balance, params, cfg_pc,
                   cfg_err, parse_calls>>
    /\ UNCHANGED <<core_vars, ins_vars, tick_vars, dos_vars, shape_vars, soc_vars, col_vars>>

(* lines 46-57: a line of a value that is open *)
CfgBufferLine ==
    /\ cfg_pc = "parse"
    /\ cfg_pos < Len(cfg_lines)
    /\ ~CfgSkipped(cfg_lines[cfg_pos + 1])
    /\ parsing_key # <<>>
    /\ LET ln == StripComment(cfg_lines[cfg_pos + 1])
           b == bracket_balance + Balance(ln)
       IN  IF ValueComplete(b)
           THEN ParseBuffered(parsing_key, buffer \o ln)
           ELSE /\ buffer' = buffer \o ln
                /\ bracket_balance' = b
                /\ UNCHANGED <<parsing_key, params, cfg_pc, cfg_err, parse_calls>>
    /\ cfg_pos' = cfg_pos + 1
    /\ UNCHANGED cfg_lines
    /\ UNCHANGED <<core_vars, ins_vars, tick_vars, dos_vars, shape_vars, soc_vars, col_vars>>

(* lines 59-77: a line key = value outside of an open value; ISPIN is the  *)
(* key of _parse_single_key (lines 114-118)                                *)
CfgKeyLine ==
    /\ cfg_pc = "parse"
    /\ cfg_pos < Len(cfg_lines)
    /\ ~CfgSkipped(cfg_lines[cfg_pos + 1])
    /\ parsing_key = <<>>
    /\ IndexOf(StripComment(cfg_lines[cfg_pos + 1]), W_eq) # 0
    /\ LET ln == StripComment(cfg_lines[cfg_pos + 1])
           at == IndexOf(ln, W_eq)
           key == IF at = 2 THEN ln[1] ELSE <<>>
           value == SubSeq(ln, at + 1, Len(ln))
       IN  IF key \notin KnownKeys
           THEN /\ cfg_pc' = "error" /\ cfg_err' = "Unknown config key"
                /\ UNCHANGED <<buffer, parsing_key, bracket_balance, params, parse_calls>>
           ELSE IF key \in BufferedKeys
           THEN IF ValueComplete(Balance(value))
                THEN ParseBuffered(key, value)
                ELSE /\ buffer' = value /\ parsing_key' = key
                     /\ bracket_balance' = Balance(value)
                     /\ UNCHANGED <<params, cfg_pc, cfg_err, parse_calls>>
           ELSE IF Len(value) = 1 /\ IsInt(value[1])
           THEN /\ params' = WithParam(params, key, IntVal(value[1]))
                /\ UNCHANGED <<buffer, parsing_key, bracket_balance, cfg_pc, cfg_err,
                               parse_calls>>
           ELSE /\ cfg_pc' = "error" /\ cfg_err' = "ISPIN must be an integer."
                /\ UNCHANGED <<buffer, parsing_key, bracket_balance, params, parse_calls>>
    /\ cfg_pos' = cfg_pos + 1
    /\ UNCHANGED cfg_lines
    /\ UNCHANGED <<core_vars, ins_vars, tick_vars, dos_vars, shape_vars, soc_vars, col_vars>>

(* line 59: a line without '=' outside of an open value is passed over *)
CfgOtherLine ==
    /\ cfg_pc = "parse"
    /\ cfg_pos < Len(cfg_lines)
    /\ ~CfgSkipped(cfg_lines[cfg_pos + 1])
    /\ parsing_key = <<>>
    /\ IndexOf(StripComment(cfg_lines[cfg_pos + 1]), W_eq) = 0
    /\ cfg_pos' = cfg_pos + 1
    /\ UNCHANGED <<cfg_lines, buffer, parsing_key, bracket_balance, params, cfg_pc,
                   cfg_err, parse_calls>>
    /\ UNCHANGED <<core_vars, ins_vars, tick_vars, dos_vars, shape_vars, soc_vars, col_vars>>

(* lines 30-32 after the last line: _apply_default_color_scheme (lines     *)
(* 188-190) and _validate (lines 166-186), PLOT_OPTION and MODE being the  *)
(* defaults                                                                *)
CfgValidate ==
    /\ cfg_pc = "parse"
    /\ cfg_pos = Len(cfg_lines)
    /\ LET cs == IF params.COLOR_SCHEME.t = "None"
                 THEN [t |-> "str", v |-> <<W_tab20>>]
                 ELSE params.COLOR_SCHEME
       IN  /\ params' = [params EXCEPT !.COLOR_SCHEME = cs]
           /\ IF params.ORBITAL_INFO.t = "None"
              THEN cfg_pc' = "error"
                     /\ cfg_err' = "ORBITAL_INFO is required and cannot be None."
              ELSE IF cs.t = "str" /\ ~IsColormapName(cs)
              THEN cfg_pc' = "error"
                     /\ cfg_err' = "is not a valid matplotlib colormap name."
              ELSE cfg_pc' = "done" /\ UNCHANGED cfg_err
    /\ UNCHANGED <<cfg_lines, cfg_pos, buffer, parsing_key, bracket_balance, parse_calls>>
    /\ UNCHANGED <<core_vars, ins_vars, tick_vars, dos_vars, shape_vars, soc_vars, col_vars>>

NextConfig ==
    \/ CfgSkipLine
    \/ CfgBufferLine
    \/ CfgKeyLine
    \/ CfgOtherLine
    \/ CfgValidate

SpecConfig == InitConfig /\ [][NextConfig]_vars

(***************************************************************************)
(* Properties of the PROCAR extractors.                                    *)
(***************************************************************************)
Spins == 0..(ispin - 1)

Cell(a, s, b, k) == IF ispin = 1 THEN a[b][k] ELSE a[s][b][k]

Places == Spins \X (0..(num_band - 1)) \X (0..(num_kpt - 1))

IsIonRowLine(ln) ==
    /\ ln # NoLine /\ Len(ln) > 0
    /\ ~StartsWith(ln, W_kpoint) /\ ~StartsWith(ln, W_band)
    /\ ~StartsWith(ln, W_ion) /\ ~StartsWith(ln, W_tot)

(* the header line lacks the key, or the token after it is no integer *)
LacksCount(h, key) ==
    \/ \A i \in 1..Len(h) : h[i] # key
    \/ IndexOf(h, key) < Len(h) /\ ~IsInt(h[IndexOf(h, key) + 1])

(* C1 as stated: after a header that declares K and B, no sequence of      *)
(* k-point, band, ion, tot and data lines, more headers than declared      *)
(* included, keeps the band reader from returning its (B, K) tensor: the   *)
(* scan never ends in an index error.                                      *)
C1_ReturnsForAnyBody ==
    ~(fn = "band" /\ line # NoLine /\ pc = "error" /\ err = "IndexError")

(* C1 amended: once allocated, and so whenever the band reader returns,    *)
(* the tensor has shape (B, K) or (2, B, K) and the table K rows, for the  *)
(* K and B the header declares; the scan fails only at a header line: with *)
(* an index error when the k-point or band counter has passed the declared *)
(* count, with a value error on a first-block k-point header that holds    *)
(* fewer than four numbers.                                                *)
C1_ShapeWhenReturned ==
    fn = "band" =>
      /\ pc \in {"scan", "done"} =>
           \E nk \in 1..MaxKpt, nb \in 1..MaxBand :
             /\ header = GoodHeader(nk, nb, file_ions)
             /\ ispin = 1 => Shape2(band_energies) = <<nb, nk>>
             /\ ispin = 2 => Shape3(band_energies) = <<2, nb, nk>>
             /\ Cardinality(DOMAIN klist) = nk
             /\ \A i \in DOMAIN klist : Len(klist[i]) = 5
      /\ (pc = "error" /\ line # NoLine) =>
           \/ /\ err = "IndexError"
              /\ StartsWith(line, W_kpoint) \/ StartsWith(line, W_band)
              /\ current_kpt >= num_kpt \/ current_band >= num_band
           \/ /\ err = "ValueError"
              /\ StartsWith(line, W_kpoint)
              /\ Len(FindAll(line)) < 4
              /\ current_spin = 0

(* the band reader has returned on a file that ends before the declared    *)
(* headers were all read *)
C1_Witness ==
    /\ fn = "band" /\ pc = "done" /\ ~wf /\ ndev = 0
    /\ ispin = 2 /\ current_spin = 1 /\ num_kpt >= 2 /\ num_band >= 2

(* C2: on a well-formed file the band reader stores the number after       *)
(* "energy" of band header b of k-point k of spin block s at (b, k), or    *)
(* (s, b, k) for ispin = 2, and no place is written by another header:     *)
(* during the scan the tensor holds exactly the numbers of the headers     *)
(* read so far, and at the return every place holds its header's number.   *)
C2_EnergiesStored ==
    (fn = "band" /\ wf /\ clean) =>
      /\ pc = "scan" => band_energies = expected
      /\ pc = "done" =>
           \A p \in Places :
             Cell(band_energies, p[1], p[2], p[3]) = EnergyNumber(p[1], p[2], p[3])

C2_Witness ==
    /\ fn = "band" /\ pc = "done" /\ wf /\ clean
    /\ ispin = 2 /\ num_kpt >= 2 /\ num_band >= 2

(* C3: on a well-formed file with N ion rows per band block and            *)
(* 0 <= atom_index < N, the orbital reader returns a tensor that holds at  *)
(* every place, the last band of the last k-point of each spin block       *)
(* included, the token of column orbital_index + 1 of ion row              *)
(* atom_index + 1 of that band block.                                      *)
C3_EveryPlaceStored ==
    ( /\ fn = "orb" /\ pc = "done" /\ wf /\ clean
      /\ ion_index < file_ions /\ orbital_index < Len(OrbitalColumns) ) =>
      \A p \in Places :
        Cell(band_data, p[1], p[2], p[3])
          = RowNumber(p[1], p[2], p[3], ion_index, orbital_index)

(* C4: on a well-formed file row i of the k-point table is i, then the     *)
(* three coordinates and the weight of the i-th k-point header of the      *)
(* first spin block.                                                       *)
C4_TableRows ==
    (fn = "band" /\ wf) =>
      /\ pc = "scan" => klist = exp_klist
      /\ pc = "done" =>
           \A i \in 0..(num_kpt - 1) : klist[i] = <<i>> \o KPointNumbers(0, i)

C4_Witness ==
    /\ fn = "band" /\ pc = "done" /\ wf /\ num_kpt >= 2
    /\ klist[1] = <<1>> \o KPointNumbers(0, 1)

(* C5: once the spin channel has rolled over, no line changes the k-point  *)
(* table.                                                                  *)
C5_TableFrozenAfterRollover ==
    [][(fn = "band" /\ current_spin >= 1) => klist' = klist]_vars

(* a k-point header of the second spin block has been read *)
C5_Witness ==
    /\ fn = "band" /\ ispin = 2 /\ pc = "scan" /\ current_spin = 1
    /\ StartsWith(line, W_kpoint) /\ current_kpt = num_kpt - 1
    /\ klist = exp_klist

(* C6: a header line that lacks "k-points:" or "bands:", or has a          *)
(* non-integer after either, makes both extractors fail before any later   *)
(* line is read, with no tensor allocated.                                 *)
C6_HeaderFailsFast ==
    ( /\ pc # "start"
      /\ LacksCount(header, W_kpoints_colon) \/ LacksCount(header, W_bands_colon) ) =>
      /\ pc = "error" /\ err = "ValueError"
      /\ line = NoLine
      /\ band_energies = <<>> /\ klist = <<>> /\ band_data = <<>>

C6_Witness ==
    /\ fn = "orb" /\ pc = "error" /\ line = NoLine
    /\ LacksCount(header, W_bands_colon) /\ ~LacksCount(header, W_kpoints_colon)

(* C7: a band header without a number after "energy", or a selected ion    *)
(* row whose requested token is no number, stores 0.0 at its place and     *)
(* does not abort the scan: every later header or row is still stored at   *)
(* its own place, so the returned tensor holds 0.0 at the failed place and *)
(* the file's number at every other place.                                 *)
C7_RowFailureAbsorbed ==
    (wf /\ ~clean /\ pc # "scan") =>
      /\ pc = "done"
      /\ fn = "band" => band_energies = expected
      /\ fn = "orb" => band_data = expected

(* the selected ion row just read has no token at column orbital_index + 1 *)
MissingColumnRead ==
    /\ fn = "orb"
    /\ IsIonRowLine(line)
    /\ current_kpt >= 0 /\ current_band >= 0
    /\ ion_line_counter = ion_index + 1
    /\ Len(line) < orbital_index + 2

(* C8 as stated: the selected ion row has no token at column               *)
(* orbital_index + 1, and the orbital reader raises an out-of-range error. *)
C8_MissingColumnRaises == MissingColumnRead => pc = "error"

(* this step reads an ion row that the counters select and that has no     *)
(* token at column orbital_index + 1                                       *)
MissingColumnStep ==
    /\ fn = "orb" /\ pc = "scan"
    /\ <<g, ndev>>' # <<g, ndev>>
    /\ IsIonRowLine(line')
    /\ current_kpt >= 0 /\ current_band >= 0
    /\ ion_line_counter = ion_index
    /\ Len(line') < orbital_index + 2

(* the call has ended on a file that follows the block layout *)
EndedOnLayoutFile ==
    /\ fn = "orb" /\ wf
    /\ HeaderError(header, ispin) = "none"
    /\ pc \notin {"start", "scan"}

(* C8 amended: the out-of-range column access is caught like a non-numeric *)
(* token and never raises by itself. With the band and k-point counters    *)
(* inside the declared counts the row raises nothing and 0.0 is stored at  *)
(* the current (spin, band, k-point) place, nothing else of the tensor     *)
(* changing; with a counter at the declared count (after a surplus header) *)
(* the store of the row raises IndexError and the tensor is left as it     *)
(* was. A call on a file that follows the block layout, whatever columns   *)
(* its rows lack, never ends in an error: it ends by returning the tensor. *)
C8_MissingColumnStoresZero ==
    /\ [][MissingColumnStep =>
            IF InRange(current_band, num_band) /\ InRange(current_kpt, num_kpt)
            THEN /\ pc' # "error" /\ err' = "none"
                 /\ band_data' = Store(band_data, current_spin, current_band,
                                       current_kpt, 0)
            ELSE /\ pc' = "error" /\ err' = "IndexError"
                 /\ band_data' = band_data]_vars
    /\ [](EndedOnLayoutFile => pc = "done" /\ err = "none")

(* a complete file of two k-points and two bands is read for the column    *)
(* after the last one: every selected row lacks it, and the tensor that is *)
(* returned holds 0.0 everywhere                                           *)
C8_Witness ==
    /\ fn = "orb" /\ pc = "done" /\ wf /\ g.phase = "E"
    /\ ispin = 1 /\ num_kpt = 2 /\ num_band = 2
    /\ ion_index < file_ions
    /\ orbital_index = Len(OrbitalColumns)
    /\ band_data = AllocTensor(ispin, num_band, num_kpt)

(***************************************************************************)
(* Properties of get_tot_index_from_procar.                                *)
(***************************************************************************)
(* the lines that start with 'ion' and hold the token 'tot' *)
TotHeaderLines == { i \in 1..Len(tot_file) :
                      /\ tot_file[i] # <<>>
                      /\ HasPrefix(tot_file[i][1], W_ion)
                      /\ \E c \in 1..Len(tot_file[i]) : tot_file[i][c] = W_tot }

FirstTotHeader == CHOOSE i \in TotHeaderLines : \A j \in TotHeaderLines : i <= j

(* the positions, counted from 0 after the first token, of the token 'tot' *)
TotPositions(ln) == { c \in 0..(Len(ln) - 2) : ln[c + 2] = W_tot }

(* C9: the call returns the 0-based position of the token 'tot' among the  *)
(* tokens after the leading 'ion' on the first line that starts with 'ion' *)
(* and contains 'tot'; with no such line it reads the whole file and       *)
(* returns None; it never raises.                                          *)
C9_TotPositionOrNone ==
    tot_ret.st \notin {"idle", "running"} =>
      IF TotHeaderLines = {}
      THEN tot_ret.st = "None" /\ tot_pos = Len(tot_file)
      ELSE /\ tot_ret.st = "returned"
           /\ tot_pos = FirstTotHeader
           /\ tot_ret.v \in TotPositions(tot_file[FirstTotHeader])
           /\ \A c \in TotPositions(tot_file[FirstTotHeader]) : tot_ret.v <= c

(* the lines that start with 'ion' and hold the characters 'tot' anywhere *)
TotCandidateLines == { i \in 1..Len(tot_file) :
                         /\ tot_file[i] # <<>>
                         /\ HasPrefix(tot_file[i][1], W_ion)
                         /\ \E c \in 1..Len(tot_file[i]) : HasSubstring(tot_file[i][c], W_tot) }

FirstTotCandidate == CHOOSE i \in TotCandidateLines : \A j \in TotCandidateLines : i <= j

(* what the function does: the first line that starts with 'ion' and holds *)
(* the characters 'tot' decides the call; it gives the position of the     *)
(* token 'tot' after the first token, or ValueError when there is none.    *)
TotIndexOrValueError ==
    tot_ret.st \notin {"idle", "running"} =>
      IF TotCandidateLines = {}
      THEN tot_ret.st = "None" /\ tot_pos = Len(tot_file)
      ELSE /\ tot_pos = FirstTotCandidate
           /\ IF TotPositions(tot_file[FirstTotCandidate]) = {}
              THEN tot_ret.st = "ValueError"
              ELSE /\ tot_ret.st = "returned"
                   /\ tot_ret.v \in TotPositions(tot_file[FirstTotCandidate])
                   /\ \A c \in TotPositions(tot_file[FirstTotCandidate]) : tot_ret.v <= c

TotIndexReturned ==
    /\ tot_ret.st = "returned" /\ tot_ret.v = 1
    /\ tot_pos >= 2
    /\ tot_file[1] # <<>> /\ tot_file[1][1] = W_tot

(***************************************************************************)
(* Properties of the orbscatter loop.                                      *)
(***************************************************************************)
CallsFor(e) == { i \in 1..Len(calls) : calls[i].entry = e }

(* C10: an entry whose orbital list has more than one element and contains *)
(* the 'tot' column index is rejected with an error when the loop reaches  *)
(* it, and the extractor is never called for it.                           *)
C10_MixedTotRejected ==
    \A e \in 1..Len(data) :
      ( /\ Len(data[e].orbitals) > 1
        /\ \E i \in 1..Len(data[e].orbitals) : data[e].orbitals[i] = tot_ind ) =>
        /\ CallsFor(e) = {}
        /\ entry_i <= e
        /\ (entry_i = e /\ sc_pc # "validate") => (sc_pc = "error" /\ sc_err # "none")

C10_Witness ==
    /\ sc_pc = "error" /\ sc_err = "mix of tot with others"
    /\ entry_i = 2
    /\ CallsFor(1) # {} /\ CallsFor(2) = {}
    /\ data[2].orbitals[2] = tot_ind

(* C11: every orbital index of an entry is validated against the 'tot'     *)
(* column before the extractor is called for that entry: a call is made    *)
(* only for an entry none of whose orbital indices exceeds tot_ind, so no  *)
(* call carries an orbital index above tot_ind, and the step that meets an *)
(* entry with such an index ends the run with an error.                    *)
C11_ValidatedBeforeExtraction ==
    [][ /\ calls' # calls =>
            /\ sc_pc = "extract"
            /\ \A i \in 1..Len(data[entry_i].orbitals) :
                 data[entry_i].orbitals[i] <= tot_ind
            /\ \A i \in 1..Len(calls') :
                 calls'[i].orbital <= tot_ind
        /\ ( /\ sc_pc = "validate"
             /\ \E i \in 1..Len(data[entry_i].orbitals) :
                  data[entry_i].orbitals[i] > tot_ind ) =>
             (sc_pc' = "error" /\ sc_err' = "exceeds total index" /\ calls' = calls)
        /\ sc_pc = "error" => (sc_pc' = "error" /\ calls' = calls) ]_vars

C11_Witness ==
    /\ sc_pc = "error" /\ sc_err = "exceeds total index"
    /\ entry_i = 2 /\ CallsFor(1) # {} /\ CallsFor(2) = {}
    /\ data[2].orbitals[1] <= tot_ind /\ data[2].orbitals[2] > tot_ind

(***************************************************************************)
(* Properties of clean_kpoints.                                            *)
(***************************************************************************)
Indices(t) == { t[i][1] : i \in 1..Len(t) }

IncreasingIndices(t) == \A i, j \in 1..Len(t) : i < j => t[i][1] < t[j][1]

(* the row of table t that carries index x *)
RowOf(t, x) == t[CHOOSE i \in 1..Len(t) : t[i][1] = x]

(* C12: the list of high-symmetry indices clean_kpoints returns starts     *)
(* with the index of the first cleaned k-point and ends with the index of  *)
(* the last cleaned k-point.                                               *)
C12_FirstAndLastIncluded ==
    kp_pc = "cleaned" =>
      /\ Len(high_sym_indices) >= 2
      /\ high_sym_indices[1] = cleaned_kpoints[1][1]
      /\ high_sym_indices[Len(high_sym_indices)]
           = cleaned_kpoints[Len(cleaned_kpoints)][1]

C12_Witness ==
    /\ kp_pc = "cleaned"
    /\ Len(cleaned_kpoints) = 2 /\ Len(k_point_array) = 3
    /\ high_sym_indices = <<1, 2>>

(* C13: when every weight is within weight_tol of the first weight, every  *)
(* k-point is kept; otherwise exactly the k-points whose absolute weight   *)
(* is below weight_tol are kept, in file order.                            *)
C13_WeightFilter ==
    kp_pc \notin {"idle", "filter"} =>
      IF \A i \in 1..Len(k_point_array) :
           Abs(k_point_array[i][5] - k_point_array[1][5]) < 2
      THEN band_kpoints = k_point_array
      ELSE /\ IncreasingIndices(band_kpoints)
           /\ \A i \in 1..Len(band_kpoints) :
                InList(band_kpoints[i], k_point_array)
           /\ \A i \in 1..Len(k_point_array) :
                InList(k_point_array[i], band_kpoints)
                  <=> Abs(k_point_array[i][5]) < 2

C13_Witness ==
    /\ kp_pc = "cleaned"
    /\ Len(k_point_array) = 3 /\ Len(band_kpoints) = 2
    /\ band_kpoints[1][5] = 0 /\ band_kpoints[2][5] = 1
    /\ k_point_array[2][5] = 2

(* the cleaned point kept most recently before the kept row with index x *)
LastCleanedBefore(x) ==
    LET c == CHOOSE i \in 1..Len(cleaned_kpoints) :
               /\ cleaned_kpoints[i][1] < x
               /\ \A j \in 1..Len(cleaned_kpoints) :
                    cleaned_kpoints[j][1] < x => j <= i
    IN  cleaned_kpoints[c]

(* C14: the cleaned list is an order-preserving subsequence of the kept    *)
(* points in which no point coincides with the cleaned point before it; a  *)
(* kept point is dropped exactly when it coincides with the cleaned point  *)
(* kept most recently, so a run of adjacent identical points leaves one    *)
(* cleaned point and a repeat that is not adjacent is kept.  On the grid   *)
(* two points coincide within the tolerance when they are equal.           *)
C14_AdjacentDuplicatesDropped ==
    kp_pc \in {"detect", "cleaned"} =>
      /\ IncreasingIndices(cleaned_kpoints)
      /\ \A i \in 1..Len(cleaned_kpoints) :
           /\ cleaned_kpoints[i][1] \in Indices(band_kpoints)
           /\ Coords(cleaned_kpoints[i])
                = Coords(RowOf(band_kpoints, cleaned_kpoints[i][1]))
      /\ \A i \in 2..Len(cleaned_kpoints) :
           Coords(cleaned_kpoints[i]) # Coords(cleaned_kpoints[i - 1])
      /\ \A j \in 1..Len(band_kpoints) :
           (band_kpoints[j][1] \notin Indices(cleaned_kpoints))
             <=> ( /\ j > 1
                   /\ Coords(LastCleanedBefore(band_kpoints[j][1]))
                        = Coords(band_kpoints[j]) )
      /\ \A j \in 2..Len(band_kpoints) :
           /\ Coords(band_kpoints[j]) = Coords(band_kpoints[j - 1])
                => band_kpoints[j][1] \notin Indices(cleaned_kpoints)
           /\ Coords(band_kpoints[j]) # Coords(band_kpoints[j - 1])
                => band_kpoints[j][1] \in Indices(cleaned_kpoints)

C14_Witness ==
    /\ kp_pc = "cleaned"
    /\ Len(band_kpoints) = 3 /\ Len(cleaned_kpoints) = 2
    /\ Coords(band_kpoints[1]) = Coords(band_kpoints[2])
    /\ Indices(cleaned_kpoints) = {0, 2}

(* C15: an interior cleaned point is in the list of high-symmetry indices  *)
(* exactly when the angle between its incoming and outgoing directions     *)
(* exceeds angle_tolerance_deg or its distance to the cleaned point before *)
(* it exceeds jump_threshold.                                              *)
C15_InteriorVertices ==
    kp_pc = "cleaned" =>
      \A i \in 2..(Len(cleaned_kpoints) - 1) :
        InList(cleaned_kpoints[i][1], high_sym_indices)
          <=> LET vin == Diff(Coords(cleaned_kpoints[i]), Coords(cleaned_kpoints[i - 1]))
                  vout == Diff(Coords(cleaned_kpoints[i + 1]), Coords(cleaned_kpoints[i]))
              IN  AngleExceeds(vin, vout) \/ JumpExceeds(vin)

(* an interior point listed for its jump alone, and one listed for its     *)
(* angle alone                                                             *)
C15_Witness ==
    /\ kp_pc = "cleaned" /\ Len(cleaned_kpoints) = 3
    /\ high_sym_indices = <<0, 1, 2>>
    /\ LET vin == Diff(Coords(cleaned_kpoints[2]), Coords(cleaned_kpoints[1]))
           vout == Diff(Coords(cleaned_kpoints[3]), Coords(cleaned_kpoints[2]))
       IN  JumpExceeds(vin) /\ ~AngleExceeds(vin, vout)

(* three pairwise distinct k-points with equal weights *)
ThreeDistinctPoints ==
    /\ Len(k_point_array) = 3
    /\ k_point_array[1][5] = k_point_array[2][5]
    /\ k_point_array[2][5] = k_point_array[3][5]
    /\ Coords(k_point_array[1]) # Coords(k_point_array[2])
    /\ Coords(k_point_array[2]) # Coords(k_point_array[3])
    /\ Coords(k_point_array[1]) # Coords(k_point_array[3])

(* the direction change at the second of the three points exceeds 5 deg *)
TurnAtSecond ==
    AngleExceeds(Diff(Coords(k_point_array[2]), Coords(k_point_array[1])),
                 Diff(Coords(k_point_array[3]), Coords(k_point_array[2])))

(* the first and second of the three points are more than 0.2 apart *)
JumpToSecond ==
    LET v == Diff(Coords(k_point_array[2]), Coords(k_point_array[1]))
    IN  25 * (v[1] * v[1] + v[2] * v[2] + v[3] * v[3]) > Grid * Grid

(* C16 as stated: for three pairwise distinct k-points with equal weights  *)
(* clean_kpoints keeps the three points and returns the indices 0 and 2,   *)
(* and index 1 as well exactly when the direction change at the second     *)
(* point exceeds 5 degrees.                                                *)
C16_ThreePointsAngleOnly ==
    (kp_pc = "cleaned" /\ ThreeDistinctPoints) =>
      /\ Len(cleaned_kpoints) = 3
      /\ high_sym_indices = IF TurnAtSecond THEN <<0, 1, 2>> ELSE <<0, 2>>

(* C16 amended: the three points are kept and the indices returned are 0   *)
(* and 2, and index 1 as well exactly when the direction change at the     *)
(* second point exceeds 5 degrees or the distance from the first to the    *)
(* second point exceeds the jump threshold 0.2.                            *)
C16_ThreePointsAngleOrJump ==
    (kp_pc = "cleaned" /\ ThreeDistinctPoints) =>
      /\ Len(cleaned_kpoints) = 3
      /\ \A i \in 1..3 : cleaned_kpoints[i][1] = i - 1
      /\ high_sym_indices =
           IF TurnAtSecond \/ JumpToSecond THEN <<0, 1, 2>> ELSE <<0, 2>>

C16_Witness ==
    /\ kp_pc = "cleaned" /\ ThreeDistinctPoints
    /\ ~TurnAtSecond /\ ~JumpToSecond
    /\ Coords(k_point_array[3])[2] # 0
    /\ high_sym_indices = <<0, 2>>

(***************************************************************************)
(* Properties of compute_kpoint_distances and of the discontinuities of    *)
(* orbscatter.                                                             *)
(***************************************************************************)
RECURSIVE SumSeq(_)
SumSeq(q) == IF q = <<>> THEN 0 ELSE Head(q) + SumSeq(Tail(q))

(* the length of the segment that ends at cleaned point i, in grid units *)
RawLength(i) ==
    LET v == Diff(Coords(cleaned_kpoints[i]), Coords(cleaned_kpoints[i - 1]))
        sq == v[1] * v[1] + v[2] * v[2] + v[3] * v[3]
    IN  CHOOSE r \in 0..sq : r * r = sq

Measured == kp_pc \in {"measured", "selected", "series", "plotted"}

(* C17: for x_scale > 0 the cumulative and the scaled distances start at 0 *)
(* and never decrease along the path; there is one entry per cleaned       *)
(* k-point, in the same order and with the same index.                     *)
C17_DistancesMonotone ==
    Measured =>
      /\ Len(full_data) = Len(cleaned_kpoints)
      /\ Len(reduced_data) = Len(cleaned_kpoints)
      /\ \A i \in 1..Len(cleaned_kpoints) :
           /\ full_data[i][1] = cleaned_kpoints[i][1]
           /\ reduced_data[i][1] = cleaned_kpoints[i][1]
           /\ reduced_data[i][2] = full_data[i][4]
      /\ full_data[1][3] = 0 /\ full_data[1][4] = [n |-> 0, d |-> 1]
      /\ \A i \in 2..Len(cleaned_kpoints) :
           /\ full_data[i - 1][3] <= full_data[i][3]
           /\ full_data[i - 1][4].n * full_data[i][4].d
                <= full_data[i][4].n * full_data[i - 1][4].d

C17_Witness ==
    /\ kp_pc = "measured" /\ Len(cleaned_kpoints) = 3
    /\ cleaned_kpoints[1][1] = 0 /\ cleaned_kpoints[2][1] = 2
    /\ full_data[2][3] > 0 /\ full_data[3][3] > full_data[2][3]
    /\ x_scale = 3

(* C18 as stated: when the sum of the Euclidean distances between          *)
(* consecutive cleaned points is greater than 0 and x_scale > 0, the last  *)
(* scaled distance equals x_scale.                                         *)
C18_RawLengthScaled ==
    (Measured /\ SumSeq(raw_dists) > 0) =>
      scaled_dists[Len(scaled_dists)] = [n |-> x_scale, d |-> 1]

(* C18 amended: when the last cumulative distance, the sum of the lengths  *)
(* of the segments no longer than jump_cutoff, is greater than 0 and       *)
(* x_scale > 0, the last scaled distance equals x_scale; when it is 0,     *)
(* every scaled distance is 0.                                             *)
C18_CollapsedLengthScaled ==
    Measured =>
      LET kept == { i \in 2..Len(cleaned_kpoints) : 4 * RawLength(i) <= Grid }
      IN  IF kept # {}
          THEN scaled_dists[Len(scaled_dists)] = [n |-> x_scale, d |-> 1]
          ELSE \A i \in 1..Len(scaled_dists) : scaled_dists[i] = [n |-> 0, d |-> 1]

C18_Witness ==
    /\ kp_pc = "measured" /\ Len(cleaned_kpoints) = 3 /\ x_scale = 3
    /\ segment_dists[2] = 0 /\ raw_dists[2] > 0 /\ segment_dists[3] > 0
    /\ scaled_dists[3] = [n |-> 3, d |-> 1]

(* C19: a segment between consecutive cleaned points adds 0 to the         *)
(* cumulative distance when its length is strictly greater than            *)
(* jump_cutoff, and its length otherwise; a segment of length jump_cutoff  *)
(* exactly adds its length.                                                *)
C19_JumpCollapsed ==
    \A i \in 2..Len(cumulative_dists) :
      (kp_pc # "idle" /\ i <= Len(cleaned_kpoints)) =>
        cumulative_dists[i] - cumulative_dists[i - 1]
          = IF 4 * RawLength(i) > Grid THEN 0 ELSE RawLength(i)

(* a segment of length 0.25 kept, after one of length 0.3125 collapsed *)
C19_Witness ==
    /\ kp_pc = "measured" /\ Len(cleaned_kpoints) = 3
    /\ raw_dists[2] = 20 /\ cumulative_dists[2] = 0
    /\ raw_dists[3] = 16 /\ cumulative_dists[3] = 16

(* the 0-based positions i, 1 <= i < n, whose scaled position equals the   *)
(* scaled position before *)
EqualPositions ==
    { i \in 1..(Len(reduced_data) - 1) : reduced_data[i + 1][2] = reduced_data[i][2] }

(* the 0-based places of the NaN entries of a row *)
NaNPlaces(row) == { i - 1 : i \in { j \in 1..Len(row) : row[j] = [n |-> 0, d |-> 0] } }

(* the rows plotted: the x coordinates, the band energies and the orbital  *)
(* series, with the rows they come from                                    *)
PlottedRows ==
    LET idx == [c \in 1..Len(reduced_data) |-> reduced_data[c][1]]
        nk == cleaned_kpoints[Len(cleaned_kpoints)][1] + 1
        val(series, sp, b, c) ==
          [n |-> 1000 * series + 100 * sp + 10 * b + idx[c] + 1, d |-> 1]
        orig(series, sp, b) == [c \in 1..Len(idx) |-> val(series, sp, b, c)]
    IN  { <<x_arr, [c \in 1..Len(idx) |-> reduced_data[c][2]]>> }
        \cup (IF plot_ispin = 1
              THEN { <<bs_selected[b], orig(0, 0, b)>> : b \in 1..MaxBand }
                   \cup { <<procar_k[i][b], orig(i, 0, b)>> :
                            i \in 1..Len(procar_k), b \in 1..MaxBand }
              ELSE { <<bs_selected[sp][b], orig(0, sp - 1, b)>> :
                       sp \in 1..2, b \in 1..MaxBand }
                   \cup { <<procar_k[i][sp][b], orig(i, sp - 1, b)>> :
                            i \in 1..Len(procar_k), sp \in 1..2, b \in 1..MaxBand })

(* C20: the discontinuity positions are exactly the positions i,           *)
(* 1 <= i < n, at which scaled position i equals scaled position i - 1; in *)
(* the x coordinates, in every band-energy row and in every orbital row a  *)
(* NaN stands before the entry of each of these positions and nowhere      *)
(* else, so all rows have the length n + d, their NaN entries at the same  *)
(* places, and their other entries unchanged and in order.                 *)
C20_NaNAtDiscontinuities ==
    kp_pc = "plotted" =>
      /\ { discontinuity_indices[j] : j \in 1..Len(discontinuity_indices) }
           = EqualPositions
      /\ Len(discontinuity_indices) = Cardinality(EqualPositions)
      /\ Len(procar_k) = 2
      /\ \A r \in PlottedRows :
           /\ Len(r[1]) = Len(reduced_data) + Cardinality(EqualPositions)
           /\ NaNPlaces(r[1])
                = { i + Cardinality({ j \in EqualPositions : j < i }) :
                      i \in EqualPositions }
           /\ SelectSeq(r[1], LAMBDA e : e # [n |-> 0, d |-> 0]) = r[2]

C20_Witness ==
    /\ kp_pc = "plotted" /\ plot_ispin = 2
    /\ Len(reduced_data) = 3
    /\ discontinuity_indices = <<1>>
    /\ Len(x_arr) = 4 /\ x_arr[2] = [n |-> 0, d |-> 0]
    /\ x_arr[4] = [n |-> 3, d |-> 1]
    /\ cleaned_kpoints[1][1] = 1

(***************************************************************************)
(* Properties of insert_discontinuities.                                   *)
(***************************************************************************)
(* the rows of an array of two or three dimensions, spin slice by slice *)
RowsOf(a, ndim) ==
    IF ndim = 2 THEN [b \in DOMAIN a |-> a[b]]
    ELSE [i \in 1..(Len(a) * MaxBand) |->
            a[((i - 1) \div MaxBand) + 1][((i - 1) % MaxBand) + 1]]

(* the number n of k-point columns of the argument *)
InsertCols ==
    CASE ins_ndim = 1 -> Len(ins_arr)
      [] ins_ndim = 2 -> Len(ins_arr[1])
      [] OTHER -> Len(ins_arr[1][1])

(* C21, as stated: whatever the input array, a call with an empty list of *)
(* positions returns the input array unchanged.                           *)
C21_EmptyListIdentityEveryArray ==
    (ins_pc \notin {"idle", "call"} /\ ins_at = <<>>)
        => (ins_pc = "returned" /\ ins_ret = ins_arr)

(* C21, amended: for an input array of two or three dimensions, a call    *)
(* with an empty list of positions returns an array of the same shape and *)
(* the same values; an array of any other number of dimensions is         *)
(* rejected with ValueError and nothing is returned.                      *)
C21_EmptyListIdentity ==
    (ins_pc \notin {"idle", "call"} /\ ins_at = <<>>)
        => IF ins_ndim \in {2, 3}
           THEN ins_pc = "returned" /\ ins_ret = ins_arr
           ELSE ins_pc = "ValueError" /\ ins_ret = <<>>

C21_Witness ==
    /\ ins_pc = "returned" /\ ins_at = <<>> /\ ins_ndim = 3
    /\ InsertCols = MaxCols /\ ins_ret = ins_arr

(* every position of ins_at lies in 1..n-1 *)
InteriorPositions ==
    \A j \in 1..Len(ins_at) : ins_at[j] >= 1 /\ ins_at[j] <= InsertCols - 1

(* the 1-based places of a returned row that hold the inserted columns:   *)
(* 0-based column D[j] + j for the j-th position, j counted from 0        *)
InsertedPlaces == { ins_at[j] + j : j \in 1..Len(ins_at) }

(* a row without the columns at the given places *)
Without(row, places) ==
    LET kept == SelectSeq([c \in 1..Len(row) |-> c], LAMBDA c : c \notin places)
    IN  [c \in 1..Len(kept) |-> row[kept[c]]]

(* C30: with d strictly increasing positions D in 1..n-1 every returned   *)
(* row, of every spin slice, has n + d columns, holds NaN at column       *)
(* D[j] + j for every j, and without those d columns is the input row.    *)
C30_NaNColumnsInserted ==
    (ins_pc = "returned" /\ InteriorPositions)
        => /\ Len(RowsOf(ins_ret, ins_ndim)) = Len(RowsOf(ins_arr, ins_ndim))
           /\ ins_ndim = 3 => Len(ins_ret) = Len(ins_arr)
           /\ \A r \in 1..Len(RowsOf(ins_arr, ins_ndim)) :
                LET row == RowsOf(ins_ret, ins_ndim)[r]
                IN  /\ Len(row) = InsertCols + Len(ins_at)
                    /\ \A c \in InsertedPlaces : row[c] = NaN
                    /\ Without(row, InsertedPlaces) = RowsOf(ins_arr, ins_ndim)[r]

C30_Witness ==
    /\ ins_pc = "returned" /\ ins_ndim = 3 /\ InsertCols = 3
    /\ ins_at = <<1, 2>>
    /\ \A sp \in 1..2 : \A b \in 1..MaxBand :
         /\ Len(ins_ret[sp][b]) = 5
         /\ ins_ret[sp][b][2] = NaN /\ ins_ret[sp][b][4] = NaN
         /\ ins_ret[sp][b][3] = ins_arr[sp][b][2]

(***************************************************************************)
(* Properties of merge_close_ticks.                                        *)
(***************************************************************************)
(* C22: for non-empty lists of equal length and any tol, the second call,  *)
(* on the result of the first with the same tol, returns that result:      *)
(* the same positions and the same labels.                                 *)
C22_MergeIdempotent ==
    /\ (mt_pc = "returned") => ~InvalidTicks(merged_vals, merged_labels)
    /\ (mt_pc = "again") =>
           (again_vals = merged_vals /\ again_labels = merged_labels)

C22_Witness ==
    /\ mt_pc = "again"
    /\ tick_vals = <<Num(0), Num(3), Num(1)>> /\ tick_tol = Num(2)
    /\ merged_vals = <<Num(0), Num(3)>> /\ again_vals = <<Num(0), Num(3)>>
    /\ Len(again_labels[2]) = 3

(* the number of input ticks a returned label joins: the labels passed     *)
(* hold one character and no '|'                                           *)
TickSize(j) == (Len(merged_labels[j]) + 1) \div 2

(* the 1-based place of the first input tick of output tick j *)
RECURSIVE TickFirst(_)
TickFirst(j) == IF j = 1 THEN 1 ELSE TickFirst(j - 1) + TickSize(j - 1)

(* the output tick input tick i ends up in *)
TickOf(i) ==
    CHOOSE j \in 1..Len(merged_labels) :
        TickFirst(j) <= i /\ i < TickFirst(j) + TickSize(j)

(* the labels of input ticks a..b joined with '|' in their order *)
RECURSIVE Joined(_, _)
Joined(a, b) ==
    IF a = b THEN tick_labels[a]
    ELSE Joined(a, b - 1) \o <<"|">> \o tick_labels[b]

(* the returned ticks partition the input in runs, each labelled with the *)
(* '|'-joined labels of its run in encounter order                        *)
LabelsJoinRuns ==
    /\ Len(merged_vals) = Len(merged_labels)
    /\ TickFirst(Len(merged_labels) + 1) = Len(tick_vals) + 1
    /\ \A j \in 1..Len(merged_labels) :
         merged_labels[j] = Joined(TickFirst(j), TickFirst(j) + TickSize(j) - 1)

(* C23, as stated: whenever two consecutive positions differ by at most    *)
(* tol they end up in the same returned tick, labelled with the joined     *)
(* labels of its run.                                                      *)
C23_ConsecutiveCloseMerged ==
    (mt_pc = "returned") =>
        /\ LabelsJoinRuns
        /\ \A i \in 2..Len(tick_vals) :
             FracLeq(Gap(tick_vals[i], tick_vals[i - 1]), tick_tol)
                 => TickOf(i) = TickOf(i - 1)

(* C23, amended: a position joins the tick of the position before it      *)
(* exactly when it differs by at most tol from the FIRST position of that  *)
(* tick; every returned tick has the position of its first member and the  *)
(* '|'-joined labels of its run in encounter order.                        *)
C23_CloseToRunStartMerged ==
    (mt_pc = "returned") =>
        /\ LabelsJoinRuns
        /\ \A j \in 1..Len(merged_vals) : merged_vals[j] = tick_vals[TickFirst(j)]
        /\ \A i \in 2..Len(tick_vals) :
             (TickOf(i) = TickOf(i - 1))
                 <=> FracLeq(Gap(tick_vals[i], tick_vals[TickFirst(TickOf(i - 1))]), tick_tol)

C23_Witness ==
    /\ mt_pc = "returned"
    /\ tick_vals = <<Num(0), Num(1), Num(2)>> /\ tick_tol = Num(1)
    /\ tick_labels = << <<"G">>, <<"X">>, <<"G">> >>
    /\ merged_vals = <<Num(0), Num(2)>>
    /\ merged_labels = << <<"G", "|", "X">>, <<"G">> >>

(* C24: the call ends in ValueError, with nothing returned, exactly when   *)
(* the positions are empty, the labels are empty or the lengths differ;    *)
(* on every other input it returns.                                        *)
C24_InvalidListsRejected ==
    (mt_pc \notin {"idle", "call"}) =>
        IF tick_vals = <<>> \/ tick_labels = <<>> \/ Len(tick_vals) # Len(tick_labels)
        THEN mt_pc = "ValueError" /\ merged_vals = <<>> /\ merged_labels = <<>>
        ELSE mt_pc \in {"returned", "again"} /\ merged_vals # <<>>

C24_Witness ==
    /\ mt_pc = "ValueError"
    /\ Len(tick_vals) = 2 /\ Len(tick_labels) = 1

(***************************************************************************)
(* Blank lines and the spin rollover of the PROCAR extractors.             *)
(***************************************************************************)
(* C28: in both extractors the step that reads a blank line of the body    *)
(* leaves the k-point, band, spin and ion-row counters, the output arrays  *)
(* and the state of the scan as they were, so the scan goes on from the    *)
(* state it would be in without that line.                                 *)
C28_BlankLinesSkipped ==
    [][ (pc = "scan" /\ line # <<>> /\ line' = <<>>)
          => UNCHANGED <<pc, err, current_kpt, current_band, current_spin,
                         ion_line_counter, band_energies, klist, band_data>> ]_vars

(* a blank line read inside the ion table, after the requested ion's row *)
C28_Witness ==
    /\ fn = "orb" /\ pc = "scan" /\ line = <<>>
    /\ g.phase = "R" /\ file_ions = 2 /\ ion_index = 0
    /\ current_kpt = 0 /\ current_band = 0 /\ ion_line_counter = 1

(* this step reads a band header of the file's layout *)
ReadsBandHeader == g.phase = "B" /\ g'.phase = "I"

(* this step reads the header of the last band of the last k-point of the *)
(* spin block the file is in                                              *)
ReadsLastBandHeader ==
    ReadsBandHeader /\ g.kpt = num_kpt - 1 /\ g'.band = num_band - 1

(* C29: the band reader with ispin = 2 on a file of two well-formed spin   *)
(* blocks.  Every band header is stored in the channel of the block it     *)
(* stands in, 0 or 1, and the other channel is left alone; current_spin    *)
(* moves exactly at the last band header of the last k-point of a block:   *)
(* in the first block to 1 with the k-point and band counters back at -1   *)
(* and the scan going on, in the second block with the loop left at once;  *)
(* the loop is left at no other line.                                      *)
C29_SpinRollover ==
    [][ (fn = "band" /\ pc = "scan" /\ ispin = 2 /\ wf')
          => /\ ReadsBandHeader
                  => /\ current_spin = g.spin /\ current_spin \in {0, 1}
                     /\ band_energies'[1 - g.spin] = band_energies[1 - g.spin]
                     /\ band_energies'[g.spin][g'.band][g.kpt]
                          = expected'[g.spin][g'.band][g.kpt]
             /\ (current_spin' # current_spin) <=> ReadsLastBandHeader
             /\ (ReadsLastBandHeader /\ g.spin = 0)
                  => /\ current_spin' = 1 /\ pc' = "scan"
                     /\ current_kpt' = -1 /\ current_band' = -1
             /\ (ReadsLastBandHeader /\ g.spin = 1)
                  => pc' = "done" /\ current_spin' = 2
             /\ (pc' # "scan") => (ReadsLastBandHeader /\ g.spin = 1) ]_vars

(* both blocks have been read to the last band header and the loop is left *)
C29_Witness ==
    /\ fn = "band" /\ ispin = 2 /\ pc = "done" /\ wf /\ clean
    /\ num_kpt = MaxKpt /\ num_band = MaxBand
    /\ current_spin = 2 /\ g.spin = 1 /\ g.phase = "I"
    /\ band_energies = expected
    /\ \A b \in 0..(num_band - 1) : \A k \in 0..(num_kpt - 1) :
         band_energies[0][b][k] # band_energies[1][b][k]

(***************************************************************************)
(* Properties of the DOSCAR readers.                                       *)
(***************************************************************************)
(* the NEDOS the file declares, from the number of its lines *)
DeclaredNedos ==
    (Len(doscar) - 6 - Cardinality(DosAtoms)) \div (Cardinality(DosAtoms) + 1)

(* the block a reader takes its rows from *)
DosBlockRead == IF dos_fn = "total" THEN 0 ELSE atom_index + 1

(* C25: with ispin = 2 either reader returns NEDOS rows of two values,     *)
(* the up value in column 0 and the down value in column 1, both of the    *)
(* same row of the file: columns 1 and 2 of the total DOS, columns         *)
(* 1 + 2*orbital_index and 2 + 2*orbital_index of the atom's block; with   *)
(* ispin = 1 either reader returns NEDOS single values.                    *)
C25_DosShape ==
    (dos_pc = "returned") =>
        /\ Len(DOS) = DeclaredNedos
        /\ dos_ispin = 2 =>
              \A r \in 1..Len(DOS) :
                  /\ DOS[r] = <<DosNumber(DosBlockRead, r - 1,
                                          IF dos_fn = "total" THEN 1 ELSE 1 + 2 * dos_orbital),
                                DosNumber(DosBlockRead, r - 1,
                                          IF dos_fn = "total" THEN 2 ELSE 2 + 2 * dos_orbital)>>
        /\ dos_ispin = 1 =>
              \A r \in 1..Len(DOS) :
                  DOS[r] = DosNumber(DosBlockRead, r - 1,
                                     IF dos_fn = "total" THEN 1 ELSE 1 + dos_orbital)

C25_Witness ==
    /\ dos_pc = "returned" /\ dos_fn = "atom" /\ dos_ispin = 2
    /\ atom_index = 1 /\ dos_orbital = 1
    /\ Len(DOS) = MaxNedos
    /\ DOS[MaxNedos] = <<DosNumber(2, MaxNedos - 1, 3), DosNumber(2, MaxNedos - 1, 4)>>

(***************************************************************************)
(* Properties of orbscatter under spin-orbit coupling.                     *)
(***************************************************************************)
(* the SOC parameter reads true, on or 1, in any case of the letters *)
SocOn == SOC \in { <<"T", "r", "u", "e">>, <<"O", "N">>, <<"1">> }

(* C26: with the SOC flag on and whatever ISPIN is configured, once the    *)
(* band tensor is loaded the spin count in use is 1: the tensor comes from *)
(* the SOC reader and is indexed as a 2-D (band, k-point) array, every     *)
(* extractor call is a call of the SOC extractor, and one panel is         *)
(* plotted.                                                                *)
C26_SocForcesOneSpin ==
    (SocOn /\ os_pc \notin {"idle", "params", "load"}) =>
        /\ os_pc # "ValueError"
        /\ eff_ispin = 1
        /\ reader = "read_band_energies_and_klist_from_PROCAR_SOC"
        /\ os_pc # "select" => selection = 2
        /\ \A c \in 1..Len(calls) :
             calls[c].fn = "orbvis_orbital_specific_band_data_from_PROCAR_SOC"
        /\ os_pc = "plotted" => panels = 1

C26_Witness ==
    /\ SOC = <<"T", "r", "u", "e">> /\ ISPIN = 2
    /\ os_pc = "plotted" /\ panels = 1 /\ selection = 2
    /\ Len(calls) >= 2

(***************************************************************************)
(* Properties of the SOC orbital extractor.                                *)
(***************************************************************************)
(* this step reads an ion row of the file *)
ReadsIonRow == g.phase = "R" /\ g' # g

(* C27: the SOC orbital extractor changes its output only at ion row       *)
(* atom_index + 1 of the first sub-block of a band, where it stores the    *)
(* requested token of that row at (band, k-point) (0.0 when the row has no *)
(* such token); the rows of the three sub-blocks that follow leave the     *)
(* output as it is.                                                        *)
C27_FirstSubBlockOnly ==
    [][ (fn = "soc" /\ pc = "scan")
          => /\ (ReadsIonRow /\ g_sub >= 1) => band_data' = band_data
             /\ (ReadsIonRow /\ g_sub = 0 /\ g.row = ion_index)
                  => band_data' =
                       [band_data EXCEPT ![g.band][g.kpt] =
                           IF orbital_index < Len(OrbitalColumns)
                           THEN SocRowNumber(0, g.band, g.kpt, ion_index, orbital_index)
                           ELSE 0]
             /\ (band_data' # band_data)
                  => (ReadsIonRow /\ g_sub = 0 /\ g.row = ion_index) ]_vars

(* a whole file of two ions has been read for the second ion *)
C27_Witness ==
    /\ fn = "soc" /\ pc = "done" /\ g.phase = "E"
    /\ file_ions = 2 /\ ion_index = 1 /\ orbital_index = 0
    /\ num_kpt = MaxKpt /\ num_band = MaxBand
    /\ band_data = expected
    /\ \A b \in 0..(num_band - 1) : \A k \in 0..(num_kpt - 1) :
         band_data[b][k] = SocRowNumber(0, b, k, 1, 0)

(***************************************************************************)
(* Further properties of merge_close_ticks.                                *)
(***************************************************************************)
(* label.split('|'): the pieces of a label between its '|' characters *)
RECURSIVE SplitLabel(_, _)
SplitLabel(lab, piece) ==
    IF lab = <<>> THEN <<piece>>
    ELSE IF Head(lab) = "|" THEN <<piece>> \o SplitLabel(Tail(lab), <<>>)
    ELSE SplitLabel(Tail(lab), Append(piece, Head(lab)))

(* the pieces of all the labels of a list, in order *)
RECURSIVE AllPieces(_)
AllPieces(labels) ==
    IF labels = <<>> THEN <<>>
    ELSE SplitLabel(Head(labels), <<>>) \o AllPieces(Tail(labels))

(* the number of pieces of the labels before label j *)
RECURSIVE PiecesBefore(_)
PiecesBefore(j) ==
    IF j = 1 THEN 0
    ELSE PiecesBefore(j - 1) + Len(SplitLabel(merged_labels[j - 1], <<>>))

(* C31: the two returned lists have one length m with 1 <= m <= n; every   *)
(* returned position is the position of the first input tick of its group; *)
(* and the returned labels, split on '|' and put one after another, are    *)
(* the input labels in their order.                                        *)
C31_LabelsKeptInOrder ==
    (mt_pc = "returned") =>
        /\ Len(merged_vals) = Len(merged_labels)
        /\ 1 <= Len(merged_vals) /\ Len(merged_vals) <= Len(tick_vals)
        /\ AllPieces(merged_labels) = tick_labels
        /\ \A j \in 1..Len(merged_vals) :
             merged_vals[j] = tick_vals[PiecesBefore(j) + 1]

C31_Witness ==
    /\ mt_pc = "returned"
    /\ tick_vals = <<Num(1), Num(1), Num(3)>> /\ tick_tol = Num(0)
    /\ tick_labels = << <<"G">>, <<"X">>, <<"G">> >>
    /\ merged_vals = <<Num(1), Num(3)>>
    /\ merged_labels = << <<"G", "|", "X">>, <<"G">> >>

(***************************************************************************)
(* The lines read_atom_orbital_dos_streamed consumes.                      *)
(***************************************************************************)
(* the 1-based line of DOSCAR holding row k (1-based) of the block of atom *)
(* a: after 6 header lines, n rows of the total DOS, a blocks of a header  *)
(* line and n rows, and the header line of the block                       *)
AtomRowLine(n, a, k) == 6 + n + a * (n + 1) + 1 + k

(* what the reader returns for a row, from the text of that row alone *)
AtomRowValue(parts) ==
    IF dos_ispin = 1 THEN FloatVal(parts[2 + dos_orbital])
    ELSE <<FloatVal(parts[2 + 2 * dos_orbital]), FloatVal(parts[3 + 2 * dos_orbital])>>

(* C32: read_atom_orbital_dos_streamed goes strictly forward through the   *)
(* file, a line at a time; each value it appends to its result is parsed   *)
(* from the line of the same row of the block of the requested atom, which *)
(* lies behind 6 header lines, nedos total-DOS rows, atom_index blocks of   *)
(* nedos + 1 lines and one block header; and it returns with nedos values,  *)
(* having consumed the file up to the last row of that block, so no line   *)
(* of another atom's block is ever parsed into the result.                 *)
C32_RowsOfRequestedAtomOnly ==
    [][(dos_fn = "atom") =>
          /\ dos_pos' \in {dos_pos, dos_pos + 1}
          /\ (DOS' # DOS) =>
                /\ dos_pos' = dos_pos + 1
                /\ dos_pos' = AtomRowLine(DeclaredNedos, atom_index, Len(DOS'))
                /\ DOS' = Append(DOS, AtomRowValue(doscar[dos_pos']))
          /\ (dos_pc' = "returned") =>
                /\ Len(DOS') = DeclaredNedos
                /\ dos_pos' = AtomRowLine(DeclaredNedos, atom_index, DeclaredNedos)]_vars

C32_Witness ==
    /\ dos_pc = "returned" /\ dos_fn = "atom" /\ dos_ispin = 1
    /\ atom_index = 1 /\ dos_orbital = 0
    /\ nedos = MaxNedos
    /\ dos_pos = 6 + MaxNedos + (MaxNedos + 1) + 1 + MaxNedos
    /\ DOS[1] = DosNumber(2, 0, 1)

(***************************************************************************)
(* Further properties of clean_kpoints.                                    *)
(***************************************************************************)
(* the weights differ by weight_tol or more from the first, and none is    *)
(* below weight_tol in absolute value                                      *)
NoPointSurvives ==
    /\ \E i \in 1..Len(k_point_array) :
          Abs(k_point_array[i][5] - k_point_array[1][5]) >= weight_tol
    /\ \A i \in 1..Len(k_point_array) : Abs(k_point_array[i][5]) >= weight_tol

(* C36: on a non-empty table whose weights are not uniform within          *)
(* weight_tol and of which none is below weight_tol, clean_kpoints ends in *)
(* an IndexError with no cleaned point and no index; on every other        *)
(* non-empty table it never raises.                                        *)
C36_NoSurvivorIndexError ==
    /\ NoPointSurvives =>
          /\ kp_pc \in {"filter", "dedup", "IndexError"}
          /\ cleaned_kpoints = <<>> /\ high_sym_indices = <<>>
    /\ (kp_pc = "IndexError") => NoPointSurvives

C36_Witness ==
    /\ kp_pc = "IndexError"
    /\ Len(k_point_array) = 2
    /\ k_point_array[1][5] = 500 /\ k_point_array[2][5] = 2
    /\ band_kpoints = <<>> /\ cleaned_kpoints = <<>>

(***************************************************************************)
(* Properties of the path from clean_kpoints to the tick positions and the *)
(* discontinuities.                                                        *)
(***************************************************************************)
CleanedDone ==
    kp_pc \in {"cleaned", "labelled", "dist", "measured", "ticks", "merged",
               "selected", "KeyError", "ValueError"}

PipeMeasured == kp_pc \in {"measured", "ticks", "merged", "selected", "KeyError"}

(* C33: when clean_kpoints leaves two cleaned points or more, the list of  *)
(* high-symmetry indices is strictly increasing and each of its entries is *)
(* the index of a cleaned point; so the lookup of the tick positions in    *)
(* dict(reduced_data) raises no KeyError and the tick positions it gives   *)
(* never decrease: there is one per index, the scaled position of the      *)
(* cleaned point of that index. The ticks that merge_close_ticks keeps of  *)
(* them are again positions of such points and never decrease.             *)
C33_IndicesIncreaseAndLookUp ==
    (CleanedDone /\ Len(cleaned_kpoints) >= 2) =>
        /\ \A j \in 1..(Len(high_sym_indices) - 1) :
              high_sym_indices[j] < high_sym_indices[j + 1]
        /\ \A j \in 1..Len(high_sym_indices) :
              \E c \in 1..Len(cleaned_kpoints) :
                  cleaned_kpoints[c][1] = high_sym_indices[j]
        /\ kp_pc # "KeyError"
        /\ (kp_pc = "ticks") =>
              /\ Len(tick_vals) = Len(high_sym_indices)
              /\ \A j \in 1..Len(tick_vals) :
                    \E c \in 1..Len(cleaned_kpoints) :
                        /\ cleaned_kpoints[c][1] = high_sym_indices[j]
                        /\ tick_vals[j] = scaled_dists[c]
        /\ (kp_pc \in {"merged", "selected"}) =>
              /\ Len(tick_vals) \in 1..Len(high_sym_indices)
              /\ Len(tick_labels) = Len(tick_vals)
              /\ \A j \in 1..Len(tick_vals) :
                    \E c \in 1..Len(cleaned_kpoints), h \in 1..Len(high_sym_indices) :
                        /\ cleaned_kpoints[c][1] = high_sym_indices[h]
                        /\ tick_vals[j] = scaled_dists[c]
        /\ (kp_pc \in {"ticks", "merged", "selected"}) =>
              \A j \in 1..(Len(tick_vals) - 1) :
                  FracLeq(tick_vals[j], tick_vals[j + 1])

C33_Witness ==
    /\ kp_pc = "selected"
    /\ Len(k_point_array) = 3 /\ Len(cleaned_kpoints) = 2
    /\ high_sym_indices = <<1, 2>>
    /\ tick_vals = <<Num(0), Num(3)>>
    /\ tick_labels = << <<"K", "0">>, <<"K", "1">> >>

(* the square, in grid units, of the raw length of the segment that ends   *)
(* at the cleaned point of 1-based position c                              *)
RawSquare(c) ==
    Dot(Diff(Coords(cleaned_kpoints[c]), Coords(cleaned_kpoints[c - 1])),
        Diff(Coords(cleaned_kpoints[c]), Coords(cleaned_kpoints[c - 1])))

(* the raw segment is longer than jump_cutoff = 0.25 *)
Collapsed(c) == 16 * RawSquare(c) > Grid * Grid

(* C34: once the cleaned points of clean_kpoints are measured and the      *)
(* collapsed total length is above 0, two adjacent scaled positions are    *)
(* equal exactly when the raw segment between them is longer than          *)
(* jump_cutoff, the discontinuity positions are the positions of the       *)
(* points that end such a segment, and no raw segment has length 0.        *)
C34_EqualIffCollapsed ==
    (PipeMeasured /\ cumulative_dists[Len(cumulative_dists)] > 0) =>
        /\ \A c \in 2..Len(cleaned_kpoints) :
              /\ RawSquare(c) > 0
              /\ (scaled_dists[c] = scaled_dists[c - 1]) <=> Collapsed(c)
        /\ (kp_pc = "selected") =>
              discontinuity_indices =
                SelectSeq([c \in 1..(Len(cleaned_kpoints) - 1) |-> c],
                          LAMBDA c : Collapsed(c + 1))

C34_Witness ==
    /\ kp_pc = "selected"
    /\ Len(cleaned_kpoints) = 3 /\ Len(band_kpoints) = 3
    /\ cumulative_dists[3] > 0
    /\ discontinuity_indices = <<2>>
    /\ x_arr = <<Num(0), Num(3), Num(3)>>

(* C35: with jump_threshold = 0.2 and jump_cutoff = 0.25 every cleaned     *)
(* point that ends a raw segment longer than jump_cutoff has its index in  *)
(* the high-symmetry index list, so every discontinuity position is the    *)
(* position of a point of that list.                                       *)
C35_DiscontinuityAtTick ==
    /\ CleanedDone =>
          \A c \in 2..Len(cleaned_kpoints) :
              Collapsed(c) =>
                  \E j \in 1..Len(high_sym_indices) :
                      high_sym_indices[j] = cleaned_kpoints[c][1]
    /\ (kp_pc = "selected") =>
          \A d \in 1..Len(discontinuity_indices) :
              \E j \in 1..Len(high_sym_indices) :
                  high_sym_indices[j] = cleaned_kpoints[discontinuity_indices[d] + 1][1]

C35_Witness ==
    /\ kp_pc = "selected"
    /\ Len(cleaned_kpoints) = 3
    /\ discontinuity_indices = <<1, 2>>
    /\ high_sym_indices = <<0, 1, 2>>
    /\ Coords(cleaned_kpoints[2]) = <<26, 0, 0>>
    /\ Coords(cleaned_kpoints[3]) = <<50, 0, 0>>

(***************************************************************************)
(* A k-point header with fewer than four numbers in the band reader.       *)
(***************************************************************************)
(* this step reads a k-point header that holds three numbers *)
ReadsShortKPointHeader ==
    /\ fn = "band" /\ pc = "scan"
    /\ line' = ShortKPointHeader /\ ndev' = ndev + 1

(* C38: a k-point header with fewer than four numeric tokens read in the   *)
(* first spin block ends read_band_energies_and_klist_from_PROCAR in the   *)
(* ValueError 'Invalid format', no row of klist being written and nothing  *)
(* being returned afterwards; read in the second spin block (ispin = 2) it *)
(* raises nothing, the scan going on with the k-point counter advanced.    *)
C38_ShortHeaderFirstBlockOnly ==
    [][ /\ ReadsShortKPointHeader =>
              /\ (current_spin = 0) =>
                    /\ pc' = "error" /\ err' = "ValueError"
                    /\ klist' = klist /\ band_energies' = band_energies
              /\ (current_spin # 0) =>
                    /\ ispin = 2 /\ current_spin = 1
                    /\ pc' = "scan" /\ err' = err
                    /\ klist' = klist
                    /\ current_kpt' = current_kpt + 1 /\ current_band' = -1
        /\ (fn = "band" /\ pc = "error") => pc' = "error" ]_vars

C38_Witness ==
    /\ fn = "band" /\ pc = "scan" /\ ispin = 2
    /\ current_spin = 1
    /\ line = ShortKPointHeader /\ ndev = 1
    /\ err = "none"

(* the same header read in the first spin block *)
C38_FirstBlockReached ==
    /\ fn = "band" /\ pc = "error" /\ err = "ValueError"
    /\ current_spin = 0 /\ line = ShortKPointHeader

(***************************************************************************)
(* Properties of the colour handling.                                      *)
(***************************************************************************)
(* a COLOR_SCHEME of an accepted form: a list of colours to_hex takes, the *)
(* int 0 or 1, the name of a colormap                                      *)
AcceptedScheme ==
    \/ /\ COLOR_SCHEME.kind = "list"
       /\ \A i \in 1..Len(COLOR_SCHEME.colours) : ValidColour(WithHash(COLOR_SCHEME.colours[i]))
    \/ COLOR_SCHEME.kind = "int" /\ COLOR_SCHEME.number \in {0, 1}
    \/ COLOR_SCHEME.kind = "str" /\ COLOR_SCHEME.name \in CmapNames

ExactlyNumCases ==
    /\ cs_pc # "ValueError"
    /\ (cs_pc = "resolved") => Len(color_scheme) = num_cases

(* C37: in orbscatter, for a COLOR_SCHEME of an accepted form and every    *)
(* num_cases >= 1, the colour handling raises nothing and leaves exactly   *)
(* num_cases colours, a colormap name with num_cases = 1 included.         *)
C37_ExactlyNumCases ==
    (cs_fn = "orbscatter" /\ AcceptedScheme) => ExactlyNumCases

(* the same of plot_pdos, which samples at i / max(1, num_cases - 1) *)
C37_PdosExactlyNumCases ==
    (cs_fn = "plot_pdos" /\ AcceptedScheme) => ExactlyNumCases

(* the same of orbscatter but for a colormap name with one case *)
C37_ExactlyNumCasesButOneCase ==
    (cs_fn = "orbscatter" /\ AcceptedScheme
       /\ ~(COLOR_SCHEME.kind = "str" /\ num_cases = 1)) => ExactlyNumCases

(***************************************************************************)
(* Properties of VASPStyleParser: values over several lines.               *)
(***************************************************************************)
(* this step takes the next line of the file *)
ReadsCfgLine == cfg_pc = "parse" /\ cfg_pos' = cfg_pos + 1

(* the value stored under a key *)
ParamOf(ps, key) == IF key = W_ORBITAL_INFO THEN ps.ORBITAL_INFO ELSE ps.COLOR_SCHEME

(* a step of the parser while a value is open, that is while parsing_key   *)
(* is set: a blank line or a comment changes nothing; any other line is    *)
(* appended to the value, no key of it being read, and the value is parsed *)
(* and stored at this line exactly when the brackets of the whole value    *)
(* are balanced or closed more often than opened                           *)
OpenValueStep ==
    (ReadsCfgLine /\ parsing_key # <<>>) =>
        IF CfgSkipped(cfg_lines[cfg_pos'])
        THEN UNCHANGED <<buffer, parsing_key, params, cfg_pc, cfg_err, parse_calls>>
        ELSE LET whole == buffer \o StripComment(cfg_lines[cfg_pos'])
             IN  /\ params'.ISPIN = params.ISPIN
                 /\ cfg_err' \notin {"Unknown config key", "ISPIN must be an integer."}
                 /\ IF Count(whole, W_open) > Count(whole, W_close)
                    THEN /\ buffer' = whole /\ parsing_key' = parsing_key
                         /\ UNCHANGED <<params, cfg_pc, cfg_err, parse_calls>>
                    ELSE /\ parse_calls' = parse_calls + 1
                         /\ \/ cfg_pc' = "error" /\ params' = params
                            \/ /\ cfg_pc' = "parse"
                               /\ parsing_key' = <<>> /\ buffer' = <<>>
                               /\ params' = WithParam(params, parsing_key,
                                                      LiteralOrRaw(whole))

(* a value is opened by a line key = value of ORBITAL_INFO or COLOR_SCHEME *)
(* read while none is open, whose value opens more brackets than it closes; *)
(* nothing is parsed or stored at that line                                *)
ValueOpensStep ==
    (parsing_key = <<>> /\ parsing_key' # <<>>) =>
        /\ ReadsCfgLine
        /\ LET ln == StripComment(cfg_lines[cfg_pos'])
           IN  /\ Len(ln) >= 2 /\ ln[1] \in BufferedKeys /\ ln[2] = W_eq
               /\ parsing_key' = ln[1]
               /\ buffer' = SubSeq(ln, 3, Len(ln))
               /\ Count(buffer', W_open) > Count(buffer', W_close)
        /\ UNCHANGED <<params, parse_calls, cfg_pc>>

(* _parse_buffered_value is called only at a line that completes a value *)
ParsedOnlyWhenComplete ==
    (parse_calls' # parse_calls) =>
        /\ parse_calls' = parse_calls + 1
        /\ ReadsCfgLine
        /\ LET whole == buffer \o StripComment(cfg_lines[cfg_pos'])
           IN  Count(whole, W_open) <= Count(whole, W_close)

(* the end of the file: a value still open is not parsed and not stored;   *)
(* with ORBITAL_INFO open the constructor raises 'ORBITAL_INFO is          *)
(* required', always or when no ORBITAL_INFO was stored before             *)
EndOfFileStep(always) ==
    (cfg_pc = "parse" /\ cfg_pc' # "parse" /\ cfg_pos' = cfg_pos /\ parsing_key # <<>>) =>
        /\ cfg_pos = Len(cfg_lines)
        /\ parse_calls' = parse_calls
        /\ parsing_key = W_ORBITAL_INFO => params'.ORBITAL_INFO = params.ORBITAL_INFO
        /\ (parsing_key = W_ORBITAL_INFO /\ (always \/ params.ORBITAL_INFO = NoneValue))
             => /\ cfg_pc' = "error"
                /\ cfg_err' = "ORBITAL_INFO is required and cannot be None."

(* C39 as stated: once a value of ORBITAL_INFO or COLOR_SCHEME opens more  *)
(* '[' than it closes, every following line that is no comment is appended *)
(* to it and never read as key = value until the running balance is 0 or   *)
(* below, where the value is parsed exactly once; a value still open at    *)
(* the end of the file is never stored, and an open ORBITAL_INFO always    *)
(* ends in the error 'ORBITAL_INFO is required'.                           *)
C39_OpenValueAlwaysRequiredError ==
    [][OpenValueStep /\ ValueOpensStep /\ ParsedOnlyWhenComplete /\ EndOfFileStep(TRUE)]_vars

(* C39, amended: the same, the error 'ORBITAL_INFO is required' at the end *)
(* of the file being raised when no ORBITAL_INFO value was stored from an  *)
(* earlier line; a value stored before is kept and the open one dropped.   *)
C39_OpenValueAppendedUntilBalanced ==
    [][OpenValueStep /\ ValueOpensStep /\ ParsedOnlyWhenComplete /\ EndOfFileStep(FALSE)]_vars

(* ORBITAL_INFO left open, a line ISPIN = 2 appended to it and not read,   *)
(* the end of the file reached                                             *)
C39_Witness ==
    /\ cfg_pc = "error" /\ cfg_err = "ORBITAL_INFO is required and cannot be None."
    /\ parsing_key = W_ORBITAL_INFO
    /\ Len(cfg_lines) = 2 /\ cfg_lines[2] = <<W_ISPIN, W_eq, <<"2">>>>
    /\ IndexOf(buffer, W_ISPIN) # 0
    /\ params.ISPIN = 1 /\ parse_calls = 0

====
